---- MODULE Spec2Model ----
(***************************************************************************)
(* Model of the Sherlock ingestion back end: the knowledge record store,   *)
(* the tags configuration, and the ingestion orchestrator                   *)
(* (services/ingestion_service.py) that drives a record through            *)
(* PENDING -> PROCESSING -> COMPLETED | FAILED.                            *)
(*                                                                         *)
(* Every store call, every external call (image fetch, extraction,        *)
(* embedding) and every attempt of a retried call is one step.  A store    *)
(* call either takes effect and returns, or raises without effect.         *)
(***************************************************************************)
EXTENDS Integers, Sequences, FiniteSets, TLC

(***************************************************************************)
(* Bounds of the model.                                                    *)
(***************************************************************************)
\* retry_record / retry_all_failed are only started on records whose
\* retry_count is at most MaxRetry, which caps the counter at MaxRetry + 1.
MaxRetry == 1

\* largest `limit` argument given to retry_all_failed
MaxLimit == 2

(***************************************************************************)
(* Program constants.                                                      *)
(***************************************************************************)
\* RetryConfig(max_attempts=3) of extract_content and generate_embedding
max_attempts == 3

\* validate_image: fewer than 8 bytes is "Image too small"
MinImageLen == 8

(***************************************************************************)
(* Values.                                                                 *)
(***************************************************************************)
\* Python's None, for the nullable string columns and for "no record"
None == "<None>"

PENDING == "pending"
PROCESSING == "processing"
COMPLETED == "completed"
FAILED == "failed"

KnowledgeStatus == {PENDING, PROCESSING, COMPLETED, FAILED}

\* the tasks (coroutines) that run entry points; calls do not overlap here
Tasks == {1}

(***************************************************************************)
(* Strings of the taxonomy are sequences of characters, so that strip(),   *)
(* lower() and title() are computed as Python computes them.               *)
(***************************************************************************)
LowerLetters == <<"a","b","c","d","e","f","g","h","i","j","k","l","m",
                  "n","o","p","q","r","s","t","u","v","w","x","y","z">>
UpperLetters == <<"A","B","C","D","E","F","G","H","I","J","K","L","M",
                  "N","O","P","Q","R","S","T","U","V","W","X","Y","Z">>

IndexIn(seq, c) == IF \E i \in 1..Len(seq) : seq[i] = c
                   THEN CHOOSE i \in 1..Len(seq) : seq[i] = c
                   ELSE 0

IsLetter(c) == IndexIn(LowerLetters, c) > 0 \/ IndexIn(UpperLetters, c) > 0

char_lower(c) == IF IndexIn(UpperLetters, c) > 0
                 THEN LowerLetters[IndexIn(UpperLetters, c)] ELSE c

char_upper(c) == IF IndexIn(LowerLetters, c) > 0
                 THEN UpperLetters[IndexIn(LowerLetters, c)] ELSE c

\* str.lower()
str_lower(s) == [i \in 1..Len(s) |-> char_lower(s[i])]

\* str.title(): a letter that follows a non-letter (or starts the string) is
\* upper-cased, every other letter is lower-cased
str_title(s) == [i \in 1..Len(s) |->
                   IF i = 1 \/ ~IsLetter(s[i - 1])
                   THEN char_upper(s[i]) ELSE char_lower(s[i])]

\* str.strip(): leading and trailing blanks removed
RECURSIVE str_lstrip(_)
str_lstrip(s) == IF s # <<>> /\ Head(s) = " " THEN str_lstrip(Tail(s)) ELSE s

RECURSIVE str_rstrip(_)
str_rstrip(s) == IF s # <<>> /\ s[Len(s)] = " "
                 THEN str_rstrip(SubSeq(s, 1, Len(s) - 1)) ELSE s

\* Variant of str_strip: nothing is removed
str_strip_nothing(s) == s

str_strip(s) == str_rstrip(str_lstrip(s))

\* the literals the code uses
EMPTY == <<>>
general == <<"g","e","n","e","r","a","l">>
other == <<"o","t","h","e","r">>

(***************************************************************************)
(* Image bytes and validate_image (utils/image_utils.py).                  *)
(***************************************************************************)
PNG_BYTES == <<137, 80, 78, 71, 13, 10, 26, 10>>
GARBAGE_BYTES == <<0, 1, 2, 3, 4, 5, 6, 7>>
SHORT_BYTES == <<255, 216, 255>>
NO_BYTES == <<>>

magic_numbers == { <<255, 216, 255>>,
                   <<137, 80, 78, 71, 13, 10, 26, 10>>,
                   <<71, 73, 70, 56, 55, 97>>,
                   <<71, 73, 70, 56, 57, 97>>,
                   <<82, 73, 70, 70>> }

startswith(b, prefix) == Len(b) >= Len(prefix) /\ SubSeq(b, 1, Len(prefix)) = prefix

MSG_TOO_SMALL == "Invalid image format: Image too small"
MSG_UNKNOWN_FORMAT == "Invalid image format: Unknown image format"

\* validate_image: None when the bytes pass, else the message of the
\* InvalidImageError it raises
validate_image(image_bytes) ==
    IF Len(image_bytes) < MinImageLen THEN MSG_TOO_SMALL
    ELSE IF \E m \in magic_numbers : startswith(image_bytes, m) THEN None
    ELSE IF SubSeq(image_bytes, 1, 4) = <<82, 73, 70, 70>>
            /\ Len(image_bytes) >= 12
            /\ SubSeq(image_bytes, 9, 12) = <<87, 69, 66, 80>> THEN None
    ELSE MSG_UNKNOWN_FORMAT

(***************************************************************************)
(* Messages of the exceptions the pipeline can meet (str(e)).              *)
(***************************************************************************)
\* any exception raised by the store client (supabase / postgrest)
MSG_STORE == "APIError: store request failed"
\* response.data[0] of an update that matched no row
MSG_INDEX == "list index out of range"
MSG_NOT_FOUND == "Database fetch failed: Record not found"
MSG_DOWNLOAD == "Failed to download image: Request timed out"
MSG_FILE_NOT_FOUND == "Failed to download image: File not found"
MSG_EXTRACTION == "Content extraction failed: Rate limit exceeded"
MSG_LLM_CONFIG == "Configuration error for gemini-3-flash-preview: Google API key not configured"
MSG_EMBEDDING == "Embedding generation failed: Rate limit exceeded"
MSG_EMPTY_TEXT == "Embedding generation failed: Empty text provided"
MSG_RETRY_NOT_FOUND == "Record not found"
MSG_RETRY_NOT_FAILED == "Record is not in failed status"
MSG_INVALID_FOLDER == "Invalid folder path"
MSG_DRIVE == "Google Drive download failed"

(***************************************************************************)
(* The knowledge table (db/repositories/knowledge_repo.py).  A table is a  *)
(* function from the ids of its rows to the rows; ids are handed out in    *)
(* creation order, so a larger id is a later created_at.                  *)
(***************************************************************************)
\* Knowledge(image=.., url=.., title=.., status=PENDING) with the model's
\* defaults for every other column
Knowledge(image, url, title) ==
    [ image |-> image, url |-> url,
      category |-> EMPTY, subcategory |-> EMPTY, topic |-> general,
      title |-> title, raw_data |-> "", paraphrased_data |-> "",
      status |-> PENDING, last_error |-> None, comments |-> None,
      retry_count |-> 0, embedding |-> None ]

\* get_by_id: the rows (at most one) whose id is `id`
get_by_id(table, id) == IF id \in DOMAIN table THEN {id} ELSE {}

\* Variant of get_by_image: a lookup that finds no row
get_by_image_none(table, image) == {}

\* get_by_image: the ids of the rows whose image column equals `image`;
\* .limit(1) hands back any one of them
get_by_image(table, image) == { id \in DOMAIN table : table[id].image = image }

RECURSIVE order_desc(_)
order_desc(ids) == IF ids = {} THEN <<>>
                   ELSE LET m == CHOOSE x \in ids : \A y \in ids : y <= x
                        IN  <<m>> \o order_desc(ids \ {m})

FirstN(seq, n) == SubSeq(seq, 1, IF Len(seq) < n THEN Len(seq) ELSE n)

\* get_failed: the failed rows, newest first, at most `limit` of them
get_failed(table, limit) ==
    FirstN(order_desc({ id \in DOMAIN table : table[id].status = FAILED }), limit)

\* create: insert the entity; the store assigns the id
create(table, id, entity) == [ i \in DOMAIN table \cup {id} |->
                                 IF i = id THEN entity ELSE table[i] ]

\* Variant of update_status: last_error is written only when an error is given
update_status_keeps_error(table, id, status, error, comments, increment_retry, current_retry_count) ==
    [ table EXCEPT ![id] =
        [ @ EXCEPT !.status = status,
                   !.last_error = IF error # None THEN error ELSE @,
                   !.comments = IF comments # None THEN comments ELSE @,
                   !.retry_count = IF increment_retry THEN current_retry_count + 1 ELSE @ ] ]

\* Variant of update_status: without increment_retry the counter is zeroed
update_status_zeroes_count(table, id, status, error, comments, increment_retry, current_retry_count) ==
    [ table EXCEPT ![id] =
        [ @ EXCEPT !.status = status,
                   !.last_error = error,
                   !.comments = IF comments # None THEN comments ELSE @,
                   !.retry_count = IF increment_retry THEN current_retry_count + 1 ELSE 0 ] ]

\* update_status: status and last_error are always written, comments only
\* when given, retry_count only with increment_retry, as one more than the
\* retry_count that the get_by_id of update_status read (current_retry_count)
update_status(table, id, status, error, comments, increment_retry, current_retry_count) ==
    [ table EXCEPT ![id] =
        [ @ EXCEPT !.status = status,
                   !.last_error = error,
                   !.comments = IF comments # None THEN comments ELSE @,
                   !.retry_count = IF increment_retry THEN current_retry_count + 1 ELSE @ ] ]

\* Variant of update_with_extraction: the row gets the results and the
\* embedding but keeps its status
update_with_extraction_without_status(table, id, raw_data, paraphrased_data, title, category, subcategory, topic, embedding) ==
    [ table EXCEPT ![id] =
        [ @ EXCEPT !.raw_data = raw_data,
                   !.paraphrased_data = paraphrased_data,
                   !.title = title,
                   !.category = category,
                   !.subcategory = subcategory,
                   !.topic = topic,
                   !.embedding = embedding,
                   !.last_error = None ] ]

update_with_extraction(table, id, raw_data, paraphrased_data, title, category, subcategory, topic, embedding) ==
    [ table EXCEPT ![id] =
        [ @ EXCEPT !.raw_data = raw_data,
                   !.paraphrased_data = paraphrased_data,
                   !.title = title,
                   !.category = category,
                   !.subcategory = subcategory,
                   !.topic = topic,
                   !.embedding = embedding,
                   !.status = COMPLETED,
                   !.last_error = None ] ]

MSG_REPROCESSING == "Reprocessing - URL/image already existed"

\* Variant of reset_for_reprocessing: the row is reset to PROCESSING
reset_for_reprocessing_to_processing(table, id) ==
    [ table EXCEPT ![id] =
        [ @ EXCEPT !.status = PROCESSING,
                   !.category = EMPTY,
                   !.subcategory = EMPTY,
                   !.topic = general,
                   !.title = "",
                   !.raw_data = "",
                   !.paraphrased_data = "",
                   !.embedding = None,
                   !.last_error = None,
                   !.comments = MSG_REPROCESSING,
                   !.retry_count = 0 ] ]

\* Variant of reset_for_reprocessing: last_error is not written
reset_for_reprocessing_keeps_error(table, id) ==
    [ table EXCEPT ![id] =
        [ @ EXCEPT !.status = PENDING,
                   !.category = EMPTY,
                   !.subcategory = EMPTY,
                   !.topic = general,
                   !.title = "",
                   !.raw_data = "",
                   !.paraphrased_data = "",
                   !.embedding = None,
                   !.comments = MSG_REPROCESSING,
                   !.retry_count = 0 ] ]

reset_for_reprocessing(table, id) ==
    [ table EXCEPT ![id] =
        [ @ EXCEPT !.status = PENDING,
                   !.category = EMPTY,
                   !.subcategory = EMPTY,
                   !.topic = general,
                   !.title = "",
                   !.raw_data = "",
                   !.paraphrased_data = "",
                   !.embedding = None,
                   !.last_error = None,
                   !.comments = MSG_REPROCESSING,
                   !.retry_count = 0 ] ]

(***************************************************************************)
(* The tags configuration (db/repositories/config_repo.py).                *)
(***************************************************************************)
\* Variant of topics_for: "other" is added after every topic
topics_for_any(normalized_topic) == <<normalized_topic, other>>

topics_for(normalized_topic) ==
    IF normalized_topic # other THEN <<normalized_topic, other>> ELSE <<other>>

\* Variant of FindByName: no entry is ever found
FindByName_none(seq, name) == 0

\* next(x for x in seq if x.name.lower() == name.lower()), as an index; 0 for None
FindByName(seq, name) ==
    IF \E i \in 1..Len(seq) : str_lower(seq[i].name) = str_lower(name)
    THEN CHOOSE i \in 1..Len(seq) :
            /\ str_lower(seq[i].name) = str_lower(name)
            /\ \A j \in 1..(i - 1) : str_lower(seq[j].name) # str_lower(name)
    ELSE 0

\* Variant of InsertAt: the element takes the place of the one at idx
InsertAt_replacing(seq, idx, x) == [ seq EXCEPT ![idx] = x ]

\* Variant of InsertAt: the element goes to the end
InsertAt_end(seq, idx, x) == Append(seq, x)

InsertAt(seq, idx, x) == SubSeq(seq, 1, idx - 1) \o <<x>> \o SubSeq(seq, idx, Len(seq))

\* the body of add_category_hierarchy between the read and the persist:
\* the flags and the merged categories
add_category_hierarchy(categories, category_name, subcategory_name, topic_name) ==
    LET normalized_cat == str_title(str_strip(category_name))
        normalized_subcat == str_lower(str_strip(subcategory_name))
        normalized_topic == str_lower(str_strip(topic_name))
        ci == FindByName(categories, normalized_cat)
    IN  IF ci = 0
        THEN [ category_added |-> TRUE, subcategory_added |-> TRUE,
               topic_added |-> (normalized_topic # other),
               categories |-> Append(categories,
                   [ name |-> normalized_cat,
                     subcategories |-> << [ name |-> normalized_subcat,
                                            topics |-> topics_for(normalized_topic) ] >> ]) ]
        ELSE LET subs == categories[ci].subcategories
                 si == FindByName(subs, normalized_subcat)
             IN  IF si = 0
                 THEN [ category_added |-> FALSE, subcategory_added |-> TRUE,
                        topic_added |-> (normalized_topic # other),
                        categories |-> [ categories EXCEPT ![ci].subcategories =
                            Append(@, [ name |-> normalized_subcat,
                                        topics |-> topics_for(normalized_topic) ]) ] ]
                 ELSE LET topics == subs[si].topics
                          present == \E k \in 1..Len(topics) :
                                        str_lower(topics[k]) = normalized_topic
                          oi == IndexIn(topics, other)
                      IN  IF present
                          THEN [ category_added |-> FALSE, subcategory_added |-> FALSE,
                                 topic_added |-> FALSE, categories |-> categories ]
                          ELSE [ category_added |-> FALSE, subcategory_added |-> FALSE,
                                 topic_added |-> TRUE,
                                 categories |-> [ categories EXCEPT
                                     ![ci].subcategories[si].topics =
                                        IF oi > 0 THEN InsertAt(@, oi, normalized_topic)
                                        ELSE Append(@, normalized_topic) ] ]

(***************************************************************************)
(* The world the entry points are called in.                               *)
(***************************************************************************)
\* the URL given to ingest_from_url and the source_url of ingest_from_bytes
HttpSources == {"http://a"}

\* the source_url of the files of the Google Drive folder
DriveFiles == <<"http://d1", "http://d2">>

\* folder.iterdir() of the local folders: /f holds one image and a text
\* file, /g holds two images
iterdir(folder_path) ==
    IF folder_path = "/f" THEN <<"/f/a.png", "/f/notes.txt">>
    ELSE IF folder_path = "/g" THEN <<"/g/b.png", "/g/c.png">>
    ELSE <<>>

\* record.image.startswith(("http://", "https://"))
is_http(image) == image \in HttpSources \cup { DriveFiles[i] : i \in 1..Len(DriveFiles) }

\* file_path.suffix.lower() in image_extensions
has_image_suffix(path) == path \in {"/f/a.png", "/g/b.png", "/g/c.png"}

\* folder.exists() and folder.is_dir()
is_folder(path) == path \in {"/f", "/g"}

\* what a fetch can deliver
FetchedBytes == {PNG_BYTES, GARBAGE_BYTES}

\* what a caller can pass to ingest_from_bytes
GivenBytes == {PNG_BYTES, GARBAGE_BYTES, SHORT_BYTES}

\* ExtractionResult values extract_content can return: _parse_extraction_response
\* has already normalised category, subcategory and topic
NoExtraction ==
    [ raw_data |-> "", paraphrased_data |-> "", title |-> "",
      category |-> EMPTY, subcategory |-> EMPTY, topic |-> EMPTY,
      is_new_category |-> FALSE, is_new_subcategory |-> FALSE, is_new_topic |-> FALSE ]

Extractions ==
    { [ raw_data |-> "text one", paraphrased_data |-> "{summary one}", title |-> "Title one",
        category |-> <<"A", "i">>, subcategory |-> <<"m", "l">>, topic |-> <<"n", "n">>,
        is_new_category |-> TRUE, is_new_subcategory |-> TRUE, is_new_topic |-> TRUE ],
      [ raw_data |-> "text one", paraphrased_data |-> "{summary one}", title |-> "Title one",
        category |-> <<"A", "i">>, subcategory |-> <<"m", "l">>, topic |-> <<"n", "n">>,
        is_new_category |-> FALSE, is_new_subcategory |-> FALSE, is_new_topic |-> FALSE ],
      [ raw_data |-> "", paraphrased_data |-> "", title |-> "Untitled",
        category |-> <<"M", "i", "s", "c">>, subcategory |-> general, topic |-> general,
        is_new_category |-> FALSE, is_new_subcategory |-> FALSE, is_new_topic |-> FALSE ] }

\* the vector the embedding provider returns for a text
embedding_of(text) == "vector of " \o text

\* not text or not text.strip()
is_blank(text) == text \in {"", " "}

(***************************************************************************)
(* State.                                                                  *)
(***************************************************************************)
VARIABLES
    knowledge,    \* the knowledge table: id -> row
    next_id,      \* the id the store gives to the next created row
    config_tags,  \* the config row with key "tags": present, and its categories
    tags_lock,    \* _tags_lock: the task holding it, or 0
    task          \* per task: the entry point it runs, where it is, its locals

vars == <<knowledge, next_id, config_tags, tags_lock, task>>

\* the pipeline run a task finished last (history, for stating the claims)
NoRun == [ id |-> 0, success |-> FALSE, recorded |-> FALSE, raised_in |-> "",
           message |-> None, retry_count_before |-> 0 ]

IdleTask ==
    [ op |-> "idle", pc |-> "idle",
      source |-> "", image_bytes |-> NO_BYTES, filename |-> "",
      category |-> EMPTY, limit |-> 0,
      files |-> <<>>, idx |-> 0, job_ids |-> <<>>,
      record_id |-> 0, current_step |-> "",
      error |-> None, raised_in |-> "", current_retry_count |-> 0,
      attempt |-> 0, extraction |-> NoExtraction, embedding |-> None,
      tags |-> <<>>, success_count |-> 0, failure_count |-> 0,
      result |-> "none", ret |-> 0, raised |-> None,
      \* (category_added, subcategory_added, topic_added) of add_category_hierarchy
      added |-> <<FALSE, FALSE, FALSE>>,
      \* history: the retry_count at the start of the current pipeline run, the
      \* capabilities it has called, the records this call has run the pipeline
      \* on, and the pipeline run that finished last
      retry_count_before |-> 0,
      calls |-> {},
      runs |-> <<>>, last_run |-> NoRun,
      \* history: the messages of the exceptions a batch loop caught and printed
      errors |-> <<>> ]

Init ==
    /\ knowledge = <<>>
    /\ next_id = 1
    /\ config_tags = [ present |-> FALSE, categories |-> <<>> ]
    /\ tags_lock = 0
    /\ task = [ t \in Tasks |-> IdleTask ]

Idle(t) == task[t].pc = "idle"

SetTask(t, r) == task' = [ task EXCEPT ![t] = r ]

(***************************************************************************)
(* Returning and raising (services/ingestion_service.py).                  *)
(***************************************************************************)
\* the call returns `ret` to its caller
returns(me, ret) == [ me EXCEPT !.pc = "done", !.result = "returned", !.ret = ret ]

\* the call raises an exception with message `msg` to its caller
raises(me, msg) == [ me EXCEPT !.pc = "done", !.result = "raised", !.raised = msg ]

\* Variant of start_pipeline: a pipeline that does not write PROCESSING first
start_pipeline_at_fetch(me, table, record_id) ==
    [ me EXCEPT !.pc = "p_fetch", !.record_id = record_id,
                !.current_step = "initializing",
                !.error = None, !.raised_in = "", !.attempt = 0,
                !.extraction = NoExtraction, !.embedding = None,
                !.image_bytes = IF me.op \in {"ingest_from_bytes", "ingest_files_from_folder"}
                                THEN @ ELSE NO_BYTES,
                !.retry_count_before = IF record_id \in DOMAIN table
                                       THEN table[record_id].retry_count ELSE 0,
                !.calls = {},
                !.runs = Append(@, record_id) ]

\* _process_record(record_id) is entered: current_step = "initializing"
start_pipeline(me, table, record_id) ==
    [ me EXCEPT !.pc = "p_status", !.record_id = record_id,
                !.current_step = "initializing",
                !.error = None, !.raised_in = "", !.attempt = 0,
                !.extraction = NoExtraction, !.embedding = None,
                !.image_bytes = IF me.op \in {"ingest_from_bytes", "ingest_files_from_folder"}
                                THEN @ ELSE NO_BYTES,
                !.retry_count_before = IF record_id \in DOMAIN table
                                       THEN table[record_id].retry_count ELSE 0,
                !.calls = {},
                !.runs = Append(@, record_id) ]

\* the index of the next entry of `files` after i that has an image suffix,
\* Len(files) + 1 when there is none (the loop of ingest_from_local_folder)
RECURSIVE next_image_index(_, _)
next_image_index(files, i) ==
    IF i + 1 > Len(files) THEN Len(files) + 1
    ELSE IF has_image_suffix(files[i + 1]) THEN i + 1
    ELSE next_image_index(files, i + 1)

\* ingest_from_local_folder: on to the next file of the first loop, or, after
\* the last one, to the second loop, which processes job_ids in order
folder_next(me, table) ==
    LET j == next_image_index(me.files, me.idx)
    IN  IF j <= Len(me.files)
        THEN [ me EXCEPT !.idx = j, !.source = me.files[j], !.pc = "lf_lookup" ]
        ELSE IF me.job_ids = <<>>
             THEN returns([ me EXCEPT !.idx = 0 ], 0)
             ELSE start_pipeline([ me EXCEPT !.idx = 1 ], table, me.job_ids[1])

\* _ingest_files_from_folder: on to the next file of the Drive folder
drive_next(me) ==
    IF me.idx + 1 <= Len(me.files)
    THEN [ me EXCEPT !.idx = me.idx + 1, !.source = me.files[me.idx + 1], !.pc = "df_file" ]
    ELSE returns(me, Len(me.job_ids))

\* ingest_from_url / ingest_from_bytes return record_id; under
\* _ingest_files_from_folder the id is added to job_ids and the loop goes on
ingest_returns(me, record_id) ==
    IF me.op = "ingest_files_from_folder"
    THEN drive_next([ me EXCEPT !.job_ids = Append(@, record_id),
                                !.success_count = @ + 1 ])
    ELSE returns(me, record_id)

\* ingest_from_bytes raises; _ingest_files_from_folder catches it, counts a
\* failure and skips the file
ingest_raises(me, msg) ==
    IF me.op = "ingest_files_from_folder"
    THEN drive_next([ me EXCEPT !.failure_count = @ + 1,
                                !.errors = Append(@, msg) ])
    ELSE raises(me, msg)

\* _process_record / _process_record_with_bytes has returned `success` to the
\* entry point that called it
pipeline_return(me0, table, success, recorded) ==
    LET me == [ me0 EXCEPT
                  !.last_run =
                     [ id |-> me0.record_id, success |-> success, recorded |-> recorded,
                       raised_in |-> me0.raised_in, message |-> me0.error,
                       retry_count_before |-> me0.retry_count_before ],
                  \* the locals of the pipeline function are gone
                  !.current_step = "", !.error = None, !.raised_in = "",
                  !.attempt = 0, !.extraction = NoExtraction, !.embedding = None,
                  !.current_retry_count = 0, !.retry_count_before = 0 ]
    IN  CASE me.op \in {"ingest_from_url", "ingest_from_bytes", "ingest_files_from_folder"} ->
               ingest_returns(me, me.record_id)
          [] me.op = "ingest_from_local_folder" ->
               IF me.idx + 1 <= Len(me.job_ids)
               THEN start_pipeline([ me EXCEPT !.idx = me.idx + 1 ], table,
                                   me.job_ids[me.idx + 1])
               ELSE returns(me, Len(me.job_ids))
          [] me.op = "retry_record" -> returns(me, 1)
          [] me.op = "retry_all_failed" ->
               LET counted == [ me EXCEPT
                     !.success_count = IF success THEN @ + 1 ELSE @,
                     !.failure_count = IF success THEN @ ELSE @ + 1 ]
               IN  IF me.idx + 1 <= Len(me.job_ids)
                   THEN [ counted EXCEPT !.idx = me.idx + 1,
                                         !.record_id = me.job_ids[me.idx + 1],
                                         !.pc = "ra_reset" ]
                   ELSE returns(counted, counted.success_count)

(***************************************************************************)
(* ingest_from_url and ingest_from_bytes.                                  *)
(***************************************************************************)
ingest_from_url(t, url) ==
    /\ Idle(t)
    /\ SetTask(t, [ IdleTask EXCEPT !.op = "ingest_from_url", !.source = url,
                                    !.pc = "ing_lookup" ])
    /\ UNCHANGED <<knowledge, next_id, config_tags, tags_lock>>

\* Variant of bytes_entry: the bytes are not validated at the entry
bytes_entry_unvalidated(me) == [ me EXCEPT !.pc = "ing_lookup" ]

\* validate_image(image_bytes) comes before any store access
bytes_entry(me) ==
    IF validate_image(me.image_bytes) # None
    THEN ingest_raises(me, validate_image(me.image_bytes))
    ELSE [ me EXCEPT !.pc = "ing_lookup" ]

ingest_from_bytes(t, image_bytes, source_url, filename) ==
    /\ Idle(t)
    /\ SetTask(t, bytes_entry([ IdleTask EXCEPT !.op = "ingest_from_bytes",
                                                !.source = source_url,
                                                !.image_bytes = image_bytes,
                                                !.filename = filename ]))
    /\ UNCHANGED <<knowledge, next_id, config_tags, tags_lock>>

\* Variant of ingest_get_by_image: no return for a COMPLETED record, every
\* existing record is reset
ingest_get_by_image_always_resets(t) ==
    LET me == task[t] IN
    /\ me.pc = "ing_lookup"
    /\ \/ SetTask(t, ingest_raises(me, MSG_STORE))
       \/ /\ get_by_image(knowledge, me.source) = {}
          /\ SetTask(t, [ me EXCEPT !.pc = "ing_create" ])
       \/ \E id \in get_by_image(knowledge, me.source) :
             SetTask(t, [ me EXCEPT !.pc = "ing_reset", !.record_id = id ])
    /\ UNCHANGED <<knowledge, next_id, config_tags, tags_lock>>

\* existing = await self.knowledge_repo.get_by_image(...) and the branch on it
ingest_get_by_image(t) ==
    LET me == task[t] IN
    /\ me.pc = "ing_lookup"
    /\ \/ SetTask(t, ingest_raises(me, MSG_STORE))
       \/ /\ get_by_image(knowledge, me.source) = {}
          /\ SetTask(t, [ me EXCEPT !.pc = "ing_create" ])
       \/ \E id \in get_by_image(knowledge, me.source) :
             IF knowledge[id].status = COMPLETED
             THEN SetTask(t, ingest_returns(me, id))
             ELSE SetTask(t, [ me EXCEPT !.pc = "ing_reset", !.record_id = id ])
    /\ UNCHANGED <<knowledge, next_id, config_tags, tags_lock>>

ingest_reset_for_reprocessing(t) ==
    LET me == task[t] IN
    /\ me.pc = "ing_reset"
    /\ \/ /\ SetTask(t, ingest_raises(me, MSG_STORE))
          /\ UNCHANGED knowledge
       \/ /\ me.record_id \in DOMAIN knowledge
          /\ knowledge' = reset_for_reprocessing(knowledge, me.record_id)
          /\ SetTask(t, start_pipeline(me, knowledge', me.record_id))
       \/ /\ me.record_id \notin DOMAIN knowledge
          /\ SetTask(t, ingest_raises(me, MSG_INDEX))
          /\ UNCHANGED knowledge
    /\ UNCHANGED <<next_id, config_tags, tags_lock>>

\* the Knowledge(...) the entry point builds: url is the source, the title is
\* the file name for ingest_from_bytes
new_knowledge(me) ==
    IF me.op = "ingest_from_url" THEN Knowledge(me.source, me.source, "")
    ELSE IF me.op = "ingest_from_local_folder" THEN Knowledge(me.source, "", "")
    ELSE Knowledge(me.source, me.source, me.filename)

ingest_create(t) ==
    LET me == task[t] IN
    /\ me.pc = "ing_create"
    /\ \/ /\ SetTask(t, ingest_raises(me, MSG_STORE))
          /\ UNCHANGED <<knowledge, next_id>>
       \/ /\ knowledge' = create(knowledge, next_id, new_knowledge(me))
          /\ next_id' = next_id + 1
          /\ SetTask(t, start_pipeline(me, knowledge', next_id))
    /\ UNCHANGED <<config_tags, tags_lock>>

(***************************************************************************)
(* _process_record and _process_record_with_bytes: the pipeline.  The two  *)
(* functions differ only in the image step, which the second one skips.    *)
(***************************************************************************)
with_bytes(me) == me.op \in {"ingest_from_bytes", "ingest_files_from_folder"}

\* the step names the code assigns to current_step
STEP_STATUS == "updating status to processing"
STEP_FETCH == "fetching record"
STEP_IMAGE == "downloading/loading image"
STEP_VALIDATE == "validating image"
STEP_TAGS == "fetching tags config"
STEP_EXTRACT == "extracting content with LLM"
STEP_HIERARCHY == "updating category hierarchy config"
STEP_EMBED == "generating embedding"
STEP_SAVE == "saving extraction results"

\* Variant of caught: the except block returns False without recording the
\* failure
caught_unrecorded(me, raised_in, msg) ==
    pipeline_return([ me EXCEPT !.error = msg, !.raised_in = raised_in,
                                !.tags = <<>> ], knowledge, FALSE, FALSE)

\* an exception with message msg, raised by the call `raised_in`, reaches
\* `except Exception as e` of the pipeline
caught(me, raised_in, msg) ==
    [ me EXCEPT !.pc = "p_fail_get", !.error = msg, !.raised_in = raised_in,
                !.attempt = 0, !.extraction = NoExtraction, !.embedding = None,
                !.tags = <<>> ]

\* await self.knowledge_repo.update_status(record_id, KnowledgeStatus.PROCESSING)
process_update_status(t) ==
    LET me == [ task[t] EXCEPT !.current_step = STEP_STATUS ] IN
    /\ task[t].pc = "p_status"
    /\ \/ /\ SetTask(t, caught(me, "update_status", MSG_STORE))
          /\ UNCHANGED knowledge
       \/ /\ me.record_id \in DOMAIN knowledge
          /\ knowledge' = update_status(knowledge, me.record_id, PROCESSING,
                                        None, None, FALSE, 0)
          /\ SetTask(t, [ me EXCEPT !.pc = "p_fetch" ])
       \/ /\ me.record_id \notin DOMAIN knowledge
          /\ SetTask(t, caught(me, "update_status", MSG_INDEX))
          /\ UNCHANGED knowledge
    /\ UNCHANGED <<next_id, config_tags, tags_lock>>

\* Variant of process_get_record: the reloaded record is not checked
process_get_record_unchecked(t) ==
    LET me == [ task[t] EXCEPT !.current_step = STEP_FETCH ] IN
    /\ task[t].pc = "p_fetch"
    /\ \/ SetTask(t, caught(me, "get_by_id", MSG_STORE))
       \/ SetTask(t, [ me EXCEPT !.source = IF me.record_id \in DOMAIN knowledge
                                            THEN knowledge[me.record_id].image ELSE @,
                                 !.pc = IF with_bytes(me) THEN "p_validate"
                                        ELSE "p_image" ])
    /\ UNCHANGED <<knowledge, next_id, config_tags, tags_lock>>

\* record = await self.knowledge_repo.get_by_id(record_id)
process_get_record(t) ==
    LET me == [ task[t] EXCEPT !.current_step = STEP_FETCH ] IN
    /\ task[t].pc = "p_fetch"
    /\ \/ SetTask(t, caught(me, "get_by_id", MSG_STORE))
       \/ /\ get_by_id(knowledge, me.record_id) = {}
          /\ SetTask(t, caught(me, "get_by_id", MSG_NOT_FOUND))
       \/ /\ get_by_id(knowledge, me.record_id) # {}
          /\ SetTask(t, [ me EXCEPT !.source = knowledge[me.record_id].image,
                                    !.pc = IF with_bytes(me) THEN "p_validate"
                                           ELSE "p_image" ])
    /\ UNCHANGED <<knowledge, next_id, config_tags, tags_lock>>

\* download_image(record.image) or get_image_from_path(record.image)
process_load_image(t) ==
    LET me == [ task[t] EXCEPT !.current_step = STEP_IMAGE,
                               !.calls = @ \cup {"fetch"} ] IN
    /\ task[t].pc = "p_image"
    /\ \/ \E b \in FetchedBytes :
             SetTask(t, [ me EXCEPT !.image_bytes = b, !.pc = "p_validate" ])
       \/ /\ is_http(me.source)
          /\ SetTask(t, caught(me, "download_image", MSG_DOWNLOAD))
       \/ /\ ~is_http(me.source)
          /\ SetTask(t, caught(me, "get_image_from_path", MSG_FILE_NOT_FOUND))
    /\ UNCHANGED <<knowledge, next_id, config_tags, tags_lock>>

\* validate_image(image_bytes)
process_validate_image(t) ==
    LET me == [ task[t] EXCEPT !.current_step = STEP_VALIDATE ] IN
    /\ task[t].pc = "p_validate"
    /\ IF validate_image(me.image_bytes) # None
       THEN SetTask(t, caught(me, "validate_image", validate_image(me.image_bytes)))
       ELSE SetTask(t, [ me EXCEPT !.pc = "p_tags" ])
    /\ UNCHANGED <<knowledge, next_id, config_tags, tags_lock>>

\* tags_config = await self.config_repo.get_tags()
process_get_tags(t) ==
    LET me == [ task[t] EXCEPT !.current_step = STEP_TAGS ] IN
    /\ task[t].pc = "p_tags"
    /\ \/ SetTask(t, caught(me, "get_tags", MSG_STORE))
       \/ SetTask(t, [ me EXCEPT !.pc = "p_extract", !.attempt = 1 ])
    /\ UNCHANGED <<knowledge, next_id, config_tags, tags_lock>>

\* one attempt of extract_content under @with_retry(max_attempts=3,
\* retryable_exceptions=(ExtractionError,))
process_extract_content(t) ==
    LET me == [ task[t] EXCEPT !.current_step = STEP_EXTRACT,
                               !.calls = @ \cup {"extract"} ] IN
    /\ task[t].pc = "p_extract"
    /\ \/ \E x \in Extractions :
             SetTask(t, [ me EXCEPT !.extraction = x, !.attempt = 1,
                            !.pc = IF x.is_new_category \/ x.is_new_subcategory
                                      \/ x.is_new_topic
                                   THEN "m_get_tags" ELSE "p_embed" ])
       \/ IF me.attempt < max_attempts
          THEN SetTask(t, [ me EXCEPT !.attempt = @ + 1 ])
          ELSE SetTask(t, caught(me, "extract_content", MSG_EXTRACTION))
       \/ SetTask(t, caught(me, "extract_content", MSG_LLM_CONFIG))
    /\ UNCHANGED <<knowledge, next_id, config_tags, tags_lock>>

(***************************************************************************)
(* add_category_hierarchy, called by the pipeline when an is_new flag is   *)
(* set: lock, read, merge, persist when something was added, unlock.       *)
(***************************************************************************)
\* add_category_hierarchy returns its flags: to the pipeline, which goes on
\* to the embedding, or to the caller of a direct call
hierarchy_returns(me, added) ==
    IF me.op = "add_category_hierarchy"
    THEN [ returns(me, 0) EXCEPT !.added = added, !.tags = <<>> ]
    ELSE [ me EXCEPT !.pc = "p_embed", !.tags = <<>> ]

\* add_category_hierarchy raises: into the pipeline's except, or to the
\* caller of a direct call
\* Variant of hierarchy_raises: the pipeline ignores the exception and goes on
hierarchy_raises_ignored(me, msg) ==
    IF me.op = "add_category_hierarchy"
    THEN [ raises(me, msg) EXCEPT !.tags = <<>> ]
    ELSE [ me EXCEPT !.pc = "p_embed", !.tags = <<>> ]

hierarchy_raises(me, msg) ==
    IF me.op = "add_category_hierarchy"
    THEN [ raises(me, msg) EXCEPT !.tags = <<>> ]
    ELSE caught(me, "add_category_hierarchy", msg)

\* a direct call of ConfigRepository.add_category_hierarchy
call_add_category_hierarchy(t, category_name, subcategory_name, topic_name) ==
    /\ Idle(t)
    /\ SetTask(t, [ IdleTask EXCEPT !.op = "add_category_hierarchy",
                                    !.pc = "m_get_tags",
                                    !.extraction.category = category_name,
                                    !.extraction.subcategory = subcategory_name,
                                    !.extraction.topic = topic_name ])
    /\ UNCHANGED <<knowledge, next_id, config_tags, tags_lock>>

\* Variant of hierarchy_get_tags: the merge without _tags_lock
hierarchy_get_tags_without_lock(t) ==
    LET me == [ task[t] EXCEPT !.current_step =
                   IF task[t].op = "add_category_hierarchy" THEN @
                   ELSE "updating category hierarchy config" ]
        x == me.extraction
        merged == add_category_hierarchy(config_tags.categories,
                                         x.category, x.subcategory, x.topic)
    IN
    /\ task[t].pc = "m_get_tags"
    /\ \/ /\ SetTask(t, hierarchy_raises(me, MSG_STORE))
          /\ UNCHANGED tags_lock
       \/ IF merged.category_added \/ merged.subcategory_added \/ merged.topic_added
          THEN /\ tags_lock' = t
               /\ SetTask(t, [ me EXCEPT !.tags = merged.categories,
                                         !.added = <<merged.category_added,
                                                     merged.subcategory_added,
                                                     merged.topic_added>>,
                                         !.pc = "m_upsert_get" ])
          ELSE /\ UNCHANGED tags_lock
               /\ SetTask(t, hierarchy_returns(me, <<FALSE, FALSE, FALSE>>))
    /\ UNCHANGED <<knowledge, next_id, config_tags>>

\* async with _tags_lock: tags_config = await self.get_tags(), and the merge
hierarchy_get_tags(t) ==
    \* the pipeline sets current_step before it calls add_category_hierarchy
    LET me == [ task[t] EXCEPT !.current_step =
                   IF task[t].op = "add_category_hierarchy" THEN @
                   ELSE STEP_HIERARCHY ]
        x == me.extraction
        merged == add_category_hierarchy(config_tags.categories,
                                         x.category, x.subcategory, x.topic)
    IN
    /\ task[t].pc = "m_get_tags"
    /\ tags_lock = 0
    /\ \/ /\ SetTask(t, hierarchy_raises(me, MSG_STORE))
          /\ UNCHANGED tags_lock
       \/ IF merged.category_added \/ merged.subcategory_added \/ merged.topic_added
          THEN /\ tags_lock' = t
               /\ SetTask(t, [ me EXCEPT !.tags = merged.categories,
                                         !.added = <<merged.category_added,
                                                     merged.subcategory_added,
                                                     merged.topic_added>>,
                                         !.pc = "m_upsert_get" ])
          ELSE /\ UNCHANGED tags_lock
               /\ SetTask(t, hierarchy_returns(me, <<FALSE, FALSE, FALSE>>))
    /\ UNCHANGED <<knowledge, next_id, config_tags>>

\* Variant of hierarchy_upsert_get: an exception leaves the lock held
hierarchy_upsert_get_keeps_lock(t) ==
    LET me == task[t] IN
    /\ me.pc = "m_upsert_get"
    /\ \/ SetTask(t, hierarchy_raises([ me EXCEPT !.added = <<FALSE, FALSE, FALSE>> ],
                                      MSG_STORE))
       \/ SetTask(t, [ me EXCEPT !.pc = "m_upsert_write" ])
    /\ UNCHANGED <<knowledge, next_id, config_tags, tags_lock>>

\* upsert_by_key: existing = await self.get_by_key(key)
hierarchy_upsert_get(t) ==
    LET me == task[t] IN
    /\ me.pc = "m_upsert_get"
    /\ \/ /\ tags_lock' = 0
          /\ SetTask(t, hierarchy_raises([ me EXCEPT !.added = <<FALSE, FALSE, FALSE>> ],
                                         MSG_STORE))
       \/ /\ UNCHANGED tags_lock
          /\ SetTask(t, [ me EXCEPT !.pc = "m_upsert_write" ])
    /\ UNCHANGED <<knowledge, next_id, config_tags>>

\* Variant of hierarchy_upsert_write: the call returns without the write
hierarchy_upsert_write_lost(t) ==
    LET me == task[t] IN
    /\ me.pc = "m_upsert_write"
    /\ tags_lock' = 0
    /\ SetTask(t, hierarchy_returns(
                     IF me.op = "add_category_hierarchy" THEN me
                     ELSE [ me EXCEPT !.added = <<FALSE, FALSE, FALSE>> ],
                     me.added))
    /\ UNCHANGED <<knowledge, next_id, config_tags>>

\* upsert_by_key: self.update(existing.id, existing) or self.create(config)
hierarchy_upsert_write(t) ==
    LET me == task[t] IN
    /\ me.pc = "m_upsert_write"
    /\ tags_lock' = 0
    /\ \/ /\ SetTask(t, hierarchy_raises([ me EXCEPT !.added = <<FALSE, FALSE, FALSE>> ],
                                         MSG_STORE))
          /\ UNCHANGED config_tags
       \/ /\ config_tags' = [ present |-> TRUE, categories |-> me.tags ]
          /\ SetTask(t, hierarchy_returns(
                           IF me.op = "add_category_hierarchy" THEN me
                           ELSE [ me EXCEPT !.added = <<FALSE, FALSE, FALSE>> ],
                           me.added))
    /\ UNCHANGED <<knowledge, next_id>>

\* Variant of process_generate_embedding: the first failure is final
process_generate_embedding_once(t) ==
    LET me == [ task[t] EXCEPT !.current_step = STEP_EMBED,
                               !.calls = @ \cup {"embed"} ]
        text == me.extraction.raw_data
    IN
    /\ task[t].pc = "p_embed"
    /\ \/ /\ ~is_blank(text)
          /\ SetTask(t, [ me EXCEPT !.embedding = embedding_of(text),
                                    !.pc = "p_save" ])
       \/ \E msg \in (IF is_blank(text) THEN {MSG_EMPTY_TEXT} ELSE {MSG_EMBEDDING}) :
             SetTask(t, caught(me, "generate_embedding", msg))
    /\ UNCHANGED <<knowledge, next_id, config_tags, tags_lock>>

\* one attempt of generate_embedding under @with_retry(max_attempts=3,
\* retryable_exceptions=(EmbeddingError,)): every failure is an EmbeddingError
process_generate_embedding(t) ==
    LET me == [ task[t] EXCEPT !.current_step = STEP_EMBED,
                               !.calls = @ \cup {"embed"} ]
        text == me.extraction.raw_data
    IN
    /\ task[t].pc = "p_embed"
    /\ \/ /\ ~is_blank(text)
          /\ SetTask(t, [ me EXCEPT !.embedding = embedding_of(text),
                                    !.pc = "p_save" ])
       \/ \E msg \in (IF is_blank(text) THEN {MSG_EMPTY_TEXT} ELSE {MSG_EMBEDDING}) :
             IF me.attempt < max_attempts
             THEN SetTask(t, [ me EXCEPT !.attempt = @ + 1 ])
             ELSE SetTask(t, caught(me, "generate_embedding", msg))
    /\ UNCHANGED <<knowledge, next_id, config_tags, tags_lock>>

\* await self.knowledge_repo.update_with_extraction(...); return True
process_update_with_extraction(t) ==
    LET me == [ task[t] EXCEPT !.current_step = STEP_SAVE ]
        x == me.extraction
    IN
    /\ task[t].pc = "p_save"
    /\ \/ /\ SetTask(t, caught(me, "update_with_extraction", MSG_STORE))
          /\ UNCHANGED knowledge
       \/ /\ me.record_id \in DOMAIN knowledge
          /\ knowledge' = update_with_extraction(knowledge, me.record_id,
                              x.raw_data, x.paraphrased_data, x.title,
                              x.category, x.subcategory, x.topic, me.embedding)
          /\ SetTask(t, pipeline_return(me, knowledge', TRUE, FALSE))
       \/ /\ me.record_id \notin DOMAIN knowledge
          /\ SetTask(t, caught(me, "update_with_extraction", MSG_INDEX))
          /\ UNCHANGED knowledge
    /\ UNCHANGED <<next_id, config_tags, tags_lock>>

\* Variant of failed_at_step: the comment does not name the step
failed_at_step_unnamed(current_step) == "Failed at step: "

\* "Failed at step: {current_step}"
failed_at_step(current_step) == "Failed at step: " \o current_step

\* except Exception: update_status(..., increment_retry=True) first reads the
\* row (current = await self.get_by_id(id)); if that raises, the pipeline
\* swallows it and returns False
process_failed_get(t) ==
    LET me == task[t] IN
    /\ me.pc = "p_fail_get"
    /\ \/ SetTask(t, pipeline_return(me, knowledge, FALSE, FALSE))
       \/ /\ me.record_id \in DOMAIN knowledge
          /\ SetTask(t, [ me EXCEPT !.pc = "p_fail_update",
                            !.current_retry_count = knowledge[me.record_id].retry_count ])
       \/ /\ me.record_id \notin DOMAIN knowledge
          /\ SetTask(t, [ me EXCEPT !.pc = "p_fail_update" ])
    /\ UNCHANGED <<knowledge, next_id, config_tags, tags_lock>>

\* Variant of process_failed_update: an exception of the update is not caught
process_failed_update_raises(t) ==
    LET me == task[t] IN
    /\ me.pc = "p_fail_update"
    /\ \/ /\ SetTask(t, raises(me, MSG_STORE))
          /\ UNCHANGED knowledge
       \/ /\ me.record_id \in DOMAIN knowledge
          /\ knowledge' = update_status(knowledge, me.record_id, FAILED, me.error,
                                        failed_at_step(me.current_step), TRUE,
                                        me.current_retry_count)
          /\ SetTask(t, pipeline_return(me, knowledge', FALSE, TRUE))
       \/ /\ me.record_id \notin DOMAIN knowledge
          /\ SetTask(t, raises(me, MSG_INDEX))
          /\ UNCHANGED knowledge
    /\ UNCHANGED <<next_id, config_tags, tags_lock>>

\* except Exception: the update of update_status(record_id, FAILED,
\* error=str(e), comments=..., increment_retry=True); return False
process_failed_update(t) ==
    LET me == task[t] IN
    /\ me.pc = "p_fail_update"
    /\ \/ /\ SetTask(t, pipeline_return(me, knowledge, FALSE, FALSE))
          /\ UNCHANGED knowledge
       \/ /\ me.record_id \in DOMAIN knowledge
          /\ knowledge' = update_status(knowledge, me.record_id, FAILED, me.error,
                                        failed_at_step(me.current_step), TRUE,
                                        me.current_retry_count)
          /\ SetTask(t, pipeline_return(me, knowledge', FALSE, TRUE))
       \/ /\ me.record_id \notin DOMAIN knowledge
          /\ SetTask(t, pipeline_return(me, knowledge, FALSE, FALSE))
          /\ UNCHANGED knowledge
    /\ UNCHANGED <<next_id, config_tags, tags_lock>>

(***************************************************************************)
(* ingest_from_local_folder: a first loop that looks every image file up   *)
(* and creates or resets its record, then a second loop that processes     *)
(* the collected job_ids.                                                  *)
(***************************************************************************)
ingest_from_local_folder(t, folder_path) ==
    LET me == [ IdleTask EXCEPT !.op = "ingest_from_local_folder",
                                !.source = folder_path ] IN
    /\ Idle(t)
    /\ IF ~is_folder(folder_path)
       THEN SetTask(t, raises(me, MSG_INVALID_FOLDER))
       ELSE SetTask(t, folder_next([ me EXCEPT !.files = iterdir(folder_path) ], knowledge))
    /\ UNCHANGED <<knowledge, next_id, config_tags, tags_lock>>

\* Variant of folder_get_by_image: a record that is not COMPLETED is not
\* reset, a new one is created
folder_get_by_image_creates(t) ==
    LET me == task[t] IN
    /\ me.pc = "lf_lookup"
    /\ \/ SetTask(t, raises(me, MSG_STORE))
       \/ /\ get_by_image(knowledge, me.source) = {}
          /\ SetTask(t, [ me EXCEPT !.pc = "lf_create" ])
       \/ \E id \in get_by_image(knowledge, me.source) :
             IF knowledge[id].status = COMPLETED
             THEN SetTask(t, folder_next(me, knowledge))
             ELSE SetTask(t, [ me EXCEPT !.pc = "lf_create" ])
    /\ UNCHANGED <<knowledge, next_id, config_tags, tags_lock>>

\* existing = await self.knowledge_repo.get_by_image(image_path)
folder_get_by_image(t) ==
    LET me == task[t] IN
    /\ me.pc = "lf_lookup"
    /\ \/ SetTask(t, raises(me, MSG_STORE))
       \/ /\ get_by_image(knowledge, me.source) = {}
          /\ SetTask(t, [ me EXCEPT !.pc = "lf_create" ])
       \/ \E id \in get_by_image(knowledge, me.source) :
             IF knowledge[id].status = COMPLETED
             THEN SetTask(t, folder_next(me, knowledge))
             ELSE SetTask(t, [ me EXCEPT !.pc = "lf_reset", !.record_id = id ])
    /\ UNCHANGED <<knowledge, next_id, config_tags, tags_lock>>

folder_reset_for_reprocessing(t) ==
    LET me == task[t] IN
    /\ me.pc = "lf_reset"
    /\ \/ /\ SetTask(t, raises(me, MSG_STORE))
          /\ UNCHANGED knowledge
       \/ /\ me.record_id \in DOMAIN knowledge
          /\ knowledge' = reset_for_reprocessing(knowledge, me.record_id)
          /\ SetTask(t, folder_next([ me EXCEPT !.job_ids = Append(@, me.record_id) ],
                                    knowledge'))
       \/ /\ me.record_id \notin DOMAIN knowledge
          /\ SetTask(t, raises(me, MSG_INDEX))
          /\ UNCHANGED knowledge
    /\ UNCHANGED <<next_id, config_tags, tags_lock>>

folder_create(t) ==
    LET me == task[t] IN
    /\ me.pc = "lf_create"
    /\ \/ /\ SetTask(t, raises(me, MSG_STORE))
          /\ UNCHANGED <<knowledge, next_id>>
       \/ /\ knowledge' = create(knowledge, next_id, new_knowledge(me))
          /\ next_id' = next_id + 1
          /\ SetTask(t, folder_next([ me EXCEPT !.job_ids = Append(@, next_id) ],
                                    knowledge'))
    /\ UNCHANGED <<config_tags, tags_lock>>

(***************************************************************************)
(* retry_record and retry_all_failed.                                      *)
(***************************************************************************)
retry_record(t, record_id) ==
    /\ Idle(t)
    /\ record_id \in DOMAIN knowledge => knowledge[record_id].retry_count <= MaxRetry
    /\ SetTask(t, [ IdleTask EXCEPT !.op = "retry_record", !.record_id = record_id,
                                    !.pc = "rr_get" ])
    /\ UNCHANGED <<knowledge, next_id, config_tags, tags_lock>>

\* record = await self.knowledge_repo.get_by_id(record_id) and the two checks
retry_record_get(t) ==
    LET me == task[t] IN
    /\ me.pc = "rr_get"
    /\ \/ SetTask(t, raises(me, MSG_STORE))
       \/ /\ get_by_id(knowledge, me.record_id) = {}
          /\ SetTask(t, raises(me, MSG_RETRY_NOT_FOUND))
       \/ /\ get_by_id(knowledge, me.record_id) # {}
          /\ IF knowledge[me.record_id].status # FAILED
             THEN SetTask(t, raises(me, MSG_RETRY_NOT_FAILED))
             ELSE SetTask(t, [ me EXCEPT !.pc = "rr_reset" ])
    /\ UNCHANGED <<knowledge, next_id, config_tags, tags_lock>>

\* await self.knowledge_repo.update_status(record_id, PENDING, error=None)
retry_record_reset(t) ==
    LET me == task[t] IN
    /\ me.pc = "rr_reset"
    /\ \/ /\ SetTask(t, raises(me, MSG_STORE))
          /\ UNCHANGED knowledge
       \/ /\ me.record_id \in DOMAIN knowledge
          /\ knowledge' = update_status(knowledge, me.record_id, PENDING,
                                        None, None, FALSE, 0)
          /\ SetTask(t, start_pipeline(me, knowledge', me.record_id))
       \/ /\ me.record_id \notin DOMAIN knowledge
          /\ SetTask(t, raises(me, MSG_INDEX))
          /\ UNCHANGED knowledge
    /\ UNCHANGED <<next_id, config_tags, tags_lock>>

retry_all_failed(t, category, limit) ==
    /\ Idle(t)
    /\ \A id \in DOMAIN knowledge : knowledge[id].retry_count <= MaxRetry
    /\ SetTask(t, [ IdleTask EXCEPT !.op = "retry_all_failed", !.category = category,
                                    !.limit = limit, !.pc = "ra_get" ])
    /\ UNCHANGED <<knowledge, next_id, config_tags, tags_lock>>

\* [r for r in failed_records if r.category == category]
filter_category(table, ids, category) ==
    SelectSeq(ids, LAMBDA id : table[id].category = category)

\* failed_records = await self.knowledge_repo.get_failed(limit=limit), then
\* the category filter when a category is given
retry_all_get_failed(t) ==
    LET me == task[t]
        failed_records == IF me.category # EMPTY
                          THEN filter_category(knowledge,
                                               get_failed(knowledge, me.limit), me.category)
                          ELSE get_failed(knowledge, me.limit)
    IN
    /\ me.pc = "ra_get"
    /\ \/ SetTask(t, raises(me, MSG_STORE))
       \/ IF failed_records = <<>>
          THEN SetTask(t, returns([ me EXCEPT !.category = EMPTY, !.limit = 0 ], 0))
          ELSE SetTask(t, [ me EXCEPT !.job_ids = failed_records, !.idx = 1,
                                      !.category = EMPTY, !.limit = 0,
                                      !.record_id = failed_records[1],
                                      !.pc = "ra_reset" ])
    /\ UNCHANGED <<knowledge, next_id, config_tags, tags_lock>>

\* await self.knowledge_repo.update_status(record.id, PENDING, error=None,
\* comments=None)
retry_all_reset(t) ==
    LET me == task[t] IN
    /\ me.pc = "ra_reset"
    /\ \/ /\ SetTask(t, raises(me, MSG_STORE))
          /\ UNCHANGED knowledge
       \/ /\ me.record_id \in DOMAIN knowledge
          /\ knowledge' = update_status(knowledge, me.record_id, PENDING,
                                        None, None, FALSE, 0)
          /\ SetTask(t, start_pipeline(me, knowledge', me.record_id))
       \/ /\ me.record_id \notin DOMAIN knowledge
          /\ SetTask(t, raises(me, MSG_INDEX))
          /\ UNCHANGED knowledge
    /\ UNCHANGED <<next_id, config_tags, tags_lock>>

(***************************************************************************)
(* _ingest_files_from_folder (api/routes/ingest.py): every file of a       *)
(* Google Drive folder is downloaded and given to ingest_from_bytes,       *)
(* inside a try that skips the file on any exception.                      *)
(***************************************************************************)
ingest_files_from_folder(t) ==
    /\ Idle(t)
    /\ SetTask(t, drive_next([ IdleTask EXCEPT !.op = "ingest_files_from_folder",
                                               !.files = DriveFiles,
                                               !.filename = "" ]))
    /\ UNCHANGED <<knowledge, next_id, config_tags, tags_lock>>

\* _ingest_single_drive_file: get_file_metadata, download_file, and the entry
\* into ingest_from_bytes, which validates the bytes
drive_download_file(t) ==
    LET me == task[t] IN
    /\ me.pc = "df_file"
    /\ \/ SetTask(t, ingest_raises(me, MSG_DRIVE))
       \/ \E b \in GivenBytes :
             SetTask(t, bytes_entry([ me EXCEPT !.image_bytes = b ]))
    /\ UNCHANGED <<knowledge, next_id, config_tags, tags_lock>>

(***************************************************************************)
(* The caller takes the result; the task is free for the next call.        *)
(***************************************************************************)
Return(t) ==
    /\ task[t].pc = "done"
    /\ SetTask(t, IdleTask)
    /\ UNCHANGED <<knowledge, next_id, config_tags, tags_lock>>

(***************************************************************************)
(* The steps of a call in progress.                                        *)
(***************************************************************************)
IngestSteps(t) ==
    \/ ingest_get_by_image(t)
    \/ ingest_reset_for_reprocessing(t)
    \/ ingest_create(t)

PipelineSteps(t) ==
    \/ process_update_status(t)
    \/ process_get_record(t)
    \/ process_validate_image(t)
    \/ process_get_tags(t)
    \/ process_extract_content(t)
    \/ hierarchy_get_tags(t)
    \/ hierarchy_upsert_get(t)
    \/ hierarchy_upsert_write(t)
    \/ process_generate_embedding(t)
    \/ process_update_with_extraction(t)
    \/ process_failed_get(t)
    \/ process_failed_update(t)

(***************************************************************************)
(* Spec: calls of the service's five entry points, one after another.      *)
(***************************************************************************)
Next ==
    \E t \in Tasks :
        \/ \E url \in HttpSources : ingest_from_url(t, url)
        \/ \E b \in GivenBytes, src \in HttpSources :
              ingest_from_bytes(t, b, src, "")
        \/ \E path \in {"/f", "/missing"} : ingest_from_local_folder(t, path)
        \/ \E id \in 1..next_id : retry_record(t, id)
        \/ \E category \in {EMPTY, <<"A", "i">>}, limit \in 1..MaxLimit :
              retry_all_failed(t, category, limit)
        \/ IngestSteps(t)
        \/ process_load_image(t)
        \/ PipelineSteps(t)
        \/ folder_get_by_image(t)
        \/ folder_reset_for_reprocessing(t)
        \/ folder_create(t)
        \/ retry_record_get(t)
        \/ retry_record_reset(t)
        \/ retry_all_get_failed(t)
        \/ retry_all_reset(t)
        \/ Return(t)

Spec == Init /\ [][Next]_vars

(***************************************************************************)
(* SpecDrive: ingestion of a Google Drive folder, through                  *)
(* _ingest_files_from_folder and ingest_from_bytes.                        *)
(***************************************************************************)
NextDrive ==
    \E t \in Tasks :
        \/ ingest_files_from_folder(t)
        \/ drive_download_file(t)
        \/ IngestSteps(t)
        \/ PipelineSteps(t)
        \/ Return(t)

SpecDrive == Init /\ [][NextDrive]_vars

(***************************************************************************)
(* SpecMerge: two coroutines of one process call add_category_hierarchy,   *)
(* starting from an empty taxonomy.                                        *)
(***************************************************************************)
MergeTasks == {1, 2}

\* the names given to add_category_hierarchy
MergeCategories == { <<"a", "i">>, <<" ", "A", "I", " ">> }
MergeSubcategories == { <<"m", "l">>, <<"D", "b">> }
MergeTopics == { <<"n", "n">>, <<"c", "v">>, other, <<"O", "t", "h", "e", "r", " ">> }

InitMerge ==
    /\ knowledge = <<>>
    /\ next_id = 1
    /\ config_tags = [ present |-> FALSE, categories |-> <<>> ]
    /\ tags_lock = 0
    /\ task = [ t \in MergeTasks |-> IdleTask ]

NextMerge ==
    \E t \in MergeTasks :
        \/ \E c \in MergeCategories, sc \in MergeSubcategories, tp \in MergeTopics :
              call_add_category_hierarchy(t, c, sc, tp)
        \/ hierarchy_get_tags(t)
        \/ hierarchy_upsert_get(t)
        \/ hierarchy_upsert_write(t)
        \/ Return(t)

SpecMerge == InitMerge /\ [][NextMerge]_vars

\* SpecMergeFair: the same calls under the scheduling of the event loop: a
\* coroutine that awaits the store gets its answer or its exception, and
\* asyncio.Lock wakes its waiters in turn, so a coroutine that waits for a
\* lock that is released again and again gets it
NextMergeFair ==
    \E t \in MergeTasks :
        \/ \E sc \in MergeSubcategories, tp \in {<<"n", "n">>, other} :
              call_add_category_hierarchy(t, <<"a", "i">>, sc, tp)
        \/ hierarchy_get_tags(t)
        \/ hierarchy_upsert_get(t)
        \/ hierarchy_upsert_write(t)
        \/ Return(t)

SpecMergeFair ==
    /\ InitMerge
    /\ [][NextMergeFair]_vars
    /\ \A t \in MergeTasks :
          /\ SF_vars(hierarchy_get_tags(t))
          /\ WF_vars(hierarchy_upsert_get(t))
          /\ WF_vars(hierarchy_upsert_write(t))

(***************************************************************************)
(* Properties.                                                             *)
(***************************************************************************)
(* The retry wrapper and the operations decorated with it.  A wrapped      *)
(* operation is called, and each call returns or raises; tenacity retries  *)
(* an exception of a retryable type until stop_after_attempt says stop,    *)
(* and with reraise=True raises the last exception itself.                 *)
(***************************************************************************)
\* the largest max_attempts a RetryConfig is given
MaxAttempts == 3

\* the exception raised by call number `call` of the operation; `cause` is
\* what went wrong underneath
exception(kind, reason, cause, call) ==
    [ kind |-> kind, reason |-> reason, cause |-> cause, call |-> call ]

\* exceptions = retryable_exceptions or config.retryable_exceptions, the
\* config's being (Exception,); {} stands for a decorator given none
retry_exceptions(retryable_exceptions) ==
    IF retryable_exceptions = {}
    THEN {"Exception"}
    ELSE retryable_exceptions

\* retry_if_exception_type(exceptions): isinstance of one of the types
retry_if_exception_type(exceptions, kind) ==
    kind \in exceptions \/ "Exception" \in exceptions

\* Variant of stop_after_attempt: one attempt more than max_attempts
stop_after_attempt_exceeded(max_attempts_, attempt_number) ==
    attempt_number > max_attempts_

\* stop_after_attempt(config.max_attempts)
stop_after_attempt(max_attempts_, attempt_number) ==
    attempt_number >= max_attempts_

\* the retryable_exceptions the decorators of the code are given
RetryableChoices == { {}, {"ExtractionError"}, {"EmbeddingError"},
                      {"ExtractionError", "LLMConnectionError"} }

\* what _extract_with_openai and _extract_with_anthropic raise when the
\* client fails; a missing api key is raised by the client property inside
\* the try block and falls, like a rejected request, to `except Exception`
CloudCauses == {"RateLimitError", "APITimeoutError", "APIConnectionError",
                "AuthenticationError", "BadRequestError", "no_api_key"}

extract_with_openai(cause, call) ==
    CASE cause = "RateLimitError" ->
            exception("ExtractionError", "Rate limit exceeded", cause, call)
      [] cause = "APITimeoutError" ->
            exception("ExtractionError", "Request timed out", cause, call)
      [] cause = "APIConnectionError" ->
            exception("ExtractionError", "Connection error", cause, call)
      [] cause = "AuthenticationError" ->
            exception("LLMConfigurationError", "Authentication failed", cause, call)
      [] OTHER ->
            exception("ExtractionError", cause, cause, call)

extract_with_anthropic(cause, call) ==
    CASE cause = "RateLimitError" ->
            exception("ExtractionError", "Rate limit exceeded", cause, call)
      [] cause = "APITimeoutError" ->
            exception("ExtractionError", "Request timed out", cause, call)
      [] cause = "APIConnectionError" ->
            exception("ExtractionError", "Connection error", cause, call)
      [] cause = "AuthenticationError" ->
            exception("LLMConfigurationError", "Authentication failed", cause, call)
      [] OTHER ->
            exception("ExtractionError", cause, cause, call)

\* what OllamaService.generate_chat_with_image raises
OllamaCauses == {"ConnectError", "TimeoutException", "HTTP404", "HTTP500",
                 "no_base_url"}

generate_chat_with_image(cause, call) ==
    CASE cause = "no_base_url" ->
            exception("LLMConfigurationError", "OLLAMA_BASE_URL not configured", cause, call)
      [] cause = "ConnectError" ->
            exception("LLMConnectionError", "Cannot connect to Ollama", cause, call)
      [] cause = "TimeoutException" ->
            exception("ExtractionError", "Request timed out", cause, call)
      [] cause = "HTTP404" ->
            exception("LLMConfigurationError", "Model not found", cause, call)
      [] cause = "HTTP500" ->
            exception("ExtractionError", "Ollama server error", cause, call)
      [] OTHER ->
            exception("ExtractionError", "Unexpected error during Ollama chat", cause, call)

\* except (LLMConnectionError, LLMConfigurationError): raise
\* except Exception as e: raise ExtractionError("", self.llm_id, str(e))
extract_with_ollama(cause, call) ==
    LET e == generate_chat_with_image(cause, call) IN
    IF e.kind \in {"LLMConnectionError", "LLMConfigurationError"}
    THEN e
    ELSE exception("ExtractionError", e.reason, cause, call)

\* what _extract_with_google raises: the key is checked before the try
\* block, everything else becomes an ExtractionError
GoogleCauses == {"quota", "DeadlineExceeded", "ServiceUnavailable",
                 "Unauthenticated", "InvalidArgument", "no_api_key"}

extract_with_google(cause, call) ==
    CASE cause = "no_api_key" ->
            exception("LLMConfigurationError", "Google API key not configured", cause, call)
      [] cause = "quota" ->
            exception("ExtractionError", "Rate limit exceeded", cause, call)
      [] OTHER ->
            exception("ExtractionError", cause, cause, call)

\* the (llm_type, llm_id) pairs an LLMService is made with
LLMs == { <<"local", "qwen3-vl:4b">>, <<"web", "gpt-4o">>,
          <<"web", "claude-sonnet-4">>, <<"web", "gemini-3-flash-preview">>,
          <<"web", "o3">> }

\* extract_content's routing to a provider
provider_of(llm) ==
    CASE llm[1] = "local" -> "ollama"
      [] llm[1] # "local" /\ llm[2] \in {"gpt-4o"} -> "openai"
      [] llm[1] # "local" /\ llm[2] \in {"claude-sonnet-4"} -> "anthropic"
      [] llm[1] # "local" /\ llm[2] \in {"gemini-3-flash-preview"} -> "google"
      [] OTHER -> "openai"

\* the failures of one call of extract_content (the part inside the decorator)
extract_content_failures(llm, call) ==
    CASE provider_of(llm) = "ollama" ->
            { extract_with_ollama(c, call) : c \in OllamaCauses }
      [] provider_of(llm) = "openai" ->
            { extract_with_openai(c, call) : c \in CloudCauses }
      [] provider_of(llm) = "anthropic" ->
            { extract_with_anthropic(c, call) : c \in CloudCauses }
      [] provider_of(llm) = "google" ->
            { extract_with_google(c, call) : c \in GoogleCauses }

\* the texts generate_embedding is given
Texts == {"", " ", "note"}

\* what the embeddings client raises
EmbeddingCauses == {"RateLimitError", "APITimeoutError", "APIConnectionError",
                    "AuthenticationError", "BadRequestError"}

\* the failures of one call of generate_embedding (the part inside the
\* decorator): every one is an EmbeddingError
generate_embedding_failures(text, call) ==
    IF is_blank(text)
    THEN { exception("EmbeddingError", "Empty text provided", "empty_text", call) }
    ELSE { exception("EmbeddingError",
                     CASE c = "RateLimitError" -> "Rate limit exceeded"
                       [] c = "APITimeoutError" -> "Request timed out"
                       [] c = "APIConnectionError" -> "Connection error"
                       [] c = "AuthenticationError" -> "Authentication failed"
                       [] c = "BadRequestError" -> "Invalid request"
                       [] OTHER -> "Embedding generation failed",
                     c, call) : c \in EmbeddingCauses }

\* a coroutine that is in no wrapped call
IdleCall ==
    [ op |-> "idle", pc |-> "idle", llm |-> <<"", "">>, text |-> "",
      max_attempts |-> 0, exceptions |-> {}, attempt_number |-> 0,
      result |-> "none", ret |-> 0, raised |-> None,
      \* history: the number of calls of the wrapped operation, the number of
      \* waits between them, and the exceptions its calls raised
      called |-> 0, waits |-> 0, failures |-> <<>> ]

InitRetry ==
    /\ knowledge = <<>>
    /\ next_id = 1
    /\ config_tags = [ present |-> FALSE, categories |-> <<>> ]
    /\ tags_lock = 0
    /\ task = [ t \in Tasks |-> IdleCall ]

\* a function decorated with @with_retry(RetryConfig(max_attempts=m), R) is called
call_with_retry(t, m, retryable_exceptions) ==
    /\ Idle(t)
    /\ SetTask(t, [ IdleCall EXCEPT !.op = "with_retry", !.pc = "call",
                       !.max_attempts = m,
                       !.exceptions = retry_exceptions(retryable_exceptions),
                       !.attempt_number = 1 ])
    /\ UNCHANGED <<knowledge, next_id, config_tags, tags_lock>>

\* retry_operation(operation, config=RetryConfig(max_attempts=m)): @retry
\* without a retry= argument retries every exception
call_retry_operation(t, m) ==
    /\ Idle(t)
    /\ SetTask(t, [ IdleCall EXCEPT !.op = "retry_operation", !.pc = "call",
                       !.max_attempts = m, !.exceptions = {"Exception"},
                       !.attempt_number = 1 ])
    /\ UNCHANGED <<knowledge, next_id, config_tags, tags_lock>>

\* LLMService(llm_type, llm_id).extract_content(image_bytes, categories)
call_extract_content(t, llm) ==
    /\ Idle(t)
    /\ SetTask(t, [ IdleCall EXCEPT !.op = "extract_content", !.pc = "call",
                       !.llm = llm, !.max_attempts = max_attempts,
                       !.exceptions = retry_exceptions({"ExtractionError"}),
                       !.attempt_number = 1 ])
    /\ UNCHANGED <<knowledge, next_id, config_tags, tags_lock>>

\* EmbeddingService().generate_embedding(text)
call_generate_embedding(t, text) ==
    /\ Idle(t)
    /\ SetTask(t, [ IdleCall EXCEPT !.op = "generate_embedding", !.pc = "call",
                       !.text = text, !.max_attempts = max_attempts,
                       !.exceptions = retry_exceptions({"EmbeddingError"}),
                       !.attempt_number = 1 ])
    /\ UNCHANGED <<knowledge, next_id, config_tags, tags_lock>>

\* the exceptions call number `call` of the wrapped operation can raise
failures_of(me, call) ==
    CASE me.op = "extract_content" -> extract_content_failures(me.llm, call)
      [] me.op = "generate_embedding" -> generate_embedding_failures(me.text, call)
      [] OTHER -> { exception(k, "failed", "unknown", call) :
                      k \in {"ExtractionError", "EmbeddingError", "ValueError"} }

\* the wrapped operation can return on this call
can_succeed(me) == me.op = "generate_embedding" => ~is_blank(me.text)

\* one attempt: await func(*args, **kwargs); a return value is returned; an
\* exception is raised at once when its type is not retryable, raised itself
\* when stop_after_attempt says stop, and followed by a wait otherwise
wrapper(t) ==
    LET me == [ task[t] EXCEPT !.called = @ + 1 ] IN
    /\ task[t].pc = "call"
    /\ \/ /\ can_succeed(me)
          /\ SetTask(t, [ me EXCEPT !.pc = "done", !.result = "returned",
                                    !.ret = me.called ])
       \/ \E e \in failures_of(me, me.called) :
             LET failed == [ me EXCEPT !.failures = Append(@, e) ] IN
             IF ~retry_if_exception_type(me.exceptions, e.kind)
                \/ stop_after_attempt(me.max_attempts, me.attempt_number)
             THEN SetTask(t, [ failed EXCEPT !.pc = "done", !.result = "raised",
                                             !.raised = e ])
             ELSE SetTask(t, [ failed EXCEPT !.pc = "wait" ])
    /\ UNCHANGED <<knowledge, next_id, config_tags, tags_lock>>

\* wait_exponential_jitter: the sleep before the next attempt
wait_exponential_jitter(t) ==
    /\ task[t].pc = "wait"
    /\ SetTask(t, [ task[t] EXCEPT !.pc = "call", !.waits = @ + 1,
                                   !.attempt_number = @ + 1 ])
    /\ UNCHANGED <<knowledge, next_id, config_tags, tags_lock>>

\* the caller has the result of the wrapped call
ReturnCall(t) ==
    /\ task[t].pc = "done"
    /\ SetTask(t, IdleCall)
    /\ UNCHANGED <<knowledge, next_id, config_tags, tags_lock>>

NextRetry ==
    \E t \in Tasks :
        \/ \E m \in 1..MaxAttempts, r \in RetryableChoices : call_with_retry(t, m, r)
        \/ \E m \in 1..MaxAttempts : call_retry_operation(t, m)
        \/ \E llm \in LLMs : call_extract_content(t, llm)
        \/ \E text \in Texts : call_generate_embedding(t, text)
        \/ wrapper(t)
        \/ wait_exponential_jitter(t)
        \/ ReturnCall(t)

SpecRetry == InitRetry /\ [][NextRetry]_vars

(***************************************************************************)
(* The search_knowledge tool (services/mcp_service.py): embed the query,   *)
(* search the store with the filters, fall back to the search without      *)
(* filters when that raises, and build the response with text previews.    *)
(* Texts are sequences of characters here, so that slicing is computed.    *)
(***************************************************************************)
\* the number of characters of a text that a result shows
PreviewLen == 500
\* the largest limit the tool passes on, and the limit of a call without one
MaxSearchLimit == 20
DefaultSearchLimit == 5

\* a text of n characters
text_of(n) == [ i \in 1..n |-> IF i % 2 = 1 THEN "a" ELSE "b" ]

\* the COMPLETED records of the store that is searched
SearchStore ==
    LET stored(n, raw_len, para_len) ==
            [ Knowledge("http://a", "http://a", "Title") EXCEPT
                 !.image = "http://" \o ToString(n),
                 !.raw_data = text_of(raw_len),
                 !.paraphrased_data = text_of(para_len),
                 !.category = <<"A", "i">>,
                 !.status = COMPLETED,
                 !.embedding = "vector of text" ]
    IN << stored(1, 3, PreviewLen + 20), stored(2, PreviewLen, 4),
          stored(3, PreviewLen + 1, PreviewLen - 1) >>

\* the similarity the store reports for a row, in units of 0.00001
similarity_of(id) == CASE id = 1 -> 90000 [] id = 2 -> 70004 [] OTHER -> 60006

\* round(similarity, 4), in units of 0.0001
round_4(similarity) ==
    LET q == similarity \div 10
        r == similarity % 10
    IN IF r > 5 \/ (r = 5 /\ q % 2 = 1) THEN q + 1 ELSE q

\* the rows an rpc of the store can answer with: at most match_count rows of
\* the table, each once, in the order the store chooses
rpc_rows(table, match_count) ==
    { rows \in UNION { [1..k -> DOMAIN table] : k \in 0..Len(table) } :
         /\ Len(rows) <= match_count
         /\ \A i, j \in 1..Len(rows) : rows[i] = rows[j] => i = j }

\* arguments.get(key, default)
get(arguments, key, default) ==
    IF key \in DOMAIN arguments THEN arguments[key] ELSE default

\* min(a, b)
min(a, b) == IF b < a THEN b ELSE a

\* Variant of search_limit: the limit of the arguments as it is
search_limit_uncapped(arguments) == get(arguments, "limit", DefaultSearchLimit)

\* limit = min(arguments.get("limit", 5), 20)
search_limit(arguments) == min(get(arguments, "limit", DefaultSearchLimit), MaxSearchLimit)

\* Variant of preview: the whole text
preview_whole(text) == text

\* text[:500] + "..." if len(text) > 500 else text
preview(text) ==
    IF Len(text) > PreviewLen
    THEN SubSeq(text, 1, PreviewLen) \o <<".", ".", ".">>
    ELSE text

\* the response of the tool for the rows of a search
search_response(table, query, rows) ==
    [ query |-> query,
      total_results |-> Len(rows),
      results |-> [ i \in 1..Len(rows) |->
                      [ id |-> ToString(rows[i]),
                        title |-> table[rows[i]].title,
                        category |-> table[rows[i]].category,
                        subcategory |-> table[rows[i]].subcategory,
                        topic |-> table[rows[i]].topic,
                        raw_data |-> preview(table[rows[i]].raw_data),
                        paraphrased_data |-> preview(table[rows[i]].paraphrased_data),
                        image |-> table[rows[i]].image,
                        similarity_score |-> round_4(similarity_of(rows[i])) ] ] ]

\* the arguments the tool is called with
SearchArguments ==
    LET limits == {1, 2, MaxSearchLimit, MaxSearchLimit + 1, 50} IN
    UNION { { [ query |-> q ], [ query |-> q, category |-> <<"a", "i">> ] }
              \cup { [ query |-> q, limit |-> n ] : n \in limits }
              \cup { [ query |-> q, limit |-> n, category |-> <<"a", "i">> ] : n \in limits }
            : q \in {"", "pricing"} }
       \cup { [ limit |-> 2 ] }

\* a coroutine that is in no tool call
IdleSearch ==
    [ op |-> "idle", pc |-> "idle", arguments |-> <<>>, query |-> "", limit |-> 0,
      query_embedding |-> None, result |-> "none", response |-> <<>>, raised |-> None,
      \* history: the searches made on the store, with what they were given
      \* and what came of them
      searches |-> <<>> ]

InitSearch ==
    /\ knowledge = SearchStore
    /\ next_id = Len(SearchStore) + 1
    /\ config_tags = [ present |-> FALSE, categories |-> <<>> ]
    /\ tags_lock = 0
    /\ task = [ t \in Tasks |-> IdleSearch ]

\* _tool_search_knowledge(arguments), up to the query check
tool_search_knowledge(t, arguments) ==
    LET query == get(arguments, "query", "")
        me == [ IdleSearch EXCEPT !.op = "search_knowledge", !.arguments = arguments,
                                  !.query = query, !.limit = search_limit(arguments) ]
    IN
    /\ Idle(t)
    /\ IF query = ""
       THEN SetTask(t, [ me EXCEPT !.pc = "done", !.result = "returned",
                            !.response = [ error |-> "Query is required",
                                           results |-> <<>> ] ])
       ELSE SetTask(t, [ me EXCEPT !.pc = "s_embed" ])
    /\ UNCHANGED <<knowledge, next_id, config_tags, tags_lock>>

\* query_embedding = await self.embedding_service.generate_embedding(query)
search_generate_embedding(t) ==
    /\ task[t].pc = "s_embed"
    /\ \/ SetTask(t, [ task[t] EXCEPT !.pc = "s_search",
                          !.query_embedding = embedding_of(task[t].query) ])
       \/ SetTask(t, [ task[t] EXCEPT !.pc = "done", !.result = "raised",
                          !.raised = MSG_EMBEDDING ])
    /\ UNCHANGED <<knowledge, next_id, config_tags, tags_lock>>

\* one search of the store, as the history keeps it
search_call(fn, me, outcome, rows) ==
    [ fn |-> fn, query_embedding |-> me.query_embedding, match_count |-> me.limit,
      outcome |-> outcome, rows |-> rows ]

\* results = await self.knowledge_repo.semantic_search(...); the response is
\* built from its rows, and any exception leads to the simple search
search_semantic_search(t) ==
    LET me == task[t] IN
    /\ me.pc = "s_search"
    /\ \/ \E rows \in rpc_rows(knowledge, me.limit) :
             SetTask(t, [ me EXCEPT !.pc = "done", !.result = "returned",
                            !.response = search_response(knowledge, me.query, rows),
                            !.searches = Append(@, search_call("semantic_search", me,
                                                               "returned", rows)) ])
       \/ SetTask(t, [ me EXCEPT !.pc = "s_simple",
                         !.searches = Append(@, search_call("semantic_search", me,
                                                            "raised", <<>>)) ])
    /\ UNCHANGED <<knowledge, next_id, config_tags, tags_lock>>

\* except Exception: results = await self.knowledge_repo.semantic_search_simple(...)
search_semantic_search_simple(t) ==
    LET me == task[t] IN
    /\ me.pc = "s_simple"
    /\ \/ \E rows \in rpc_rows(knowledge, me.limit) :
             SetTask(t, [ me EXCEPT !.pc = "done", !.result = "returned",
                            !.response = search_response(knowledge, me.query, rows),
                            !.searches = Append(@, search_call("semantic_search_simple", me,
                                                               "returned", rows)) ])
       \/ SetTask(t, [ me EXCEPT !.pc = "done", !.result = "raised", !.raised = MSG_STORE,
                         !.searches = Append(@, search_call("semantic_search_simple", me,
                                                            "raised", <<>>)) ])
    /\ UNCHANGED <<knowledge, next_id, config_tags, tags_lock>>

\* the caller has the response of the tool
ReturnSearch(t) ==
    /\ task[t].pc = "done"
    /\ SetTask(t, IdleSearch)
    /\ UNCHANGED <<knowledge, next_id, config_tags, tags_lock>>

NextSearch ==
    \E t \in Tasks :
        \/ \E arguments \in SearchArguments : tool_search_knowledge(t, arguments)
        \/ search_generate_embedding(t)
        \/ search_semantic_search(t)
        \/ search_semantic_search_simple(t)
        \/ ReturnSearch(t)

SpecSearch == InitSearch /\ [][NextSearch]_vars

(***************************************************************************)
(* SpecOverlap: two ingestion requests for the same source that overlap.   *)
(* Each request makes one call of ingest_from_url or ingest_from_bytes;    *)
(* the calls interleave at their store and provider calls.                 *)
(***************************************************************************)
\* the requests that are served at the same time
Requests == {1, 2}

InitOverlap ==
    /\ knowledge = <<>>
    /\ next_id = 1
    /\ config_tags = [ present |-> FALSE, categories |-> <<>> ]
    /\ tags_lock = 0
    /\ task = [ t \in Requests |-> IdleTask ]

NextOverlap ==
    \E t \in Requests :
        \/ \E url \in HttpSources : ingest_from_url(t, url)
        \/ \E src \in HttpSources : ingest_from_bytes(t, PNG_BYTES, src, "")
        \/ IngestSteps(t)
        \/ process_load_image(t)
        \/ PipelineSteps(t)

SpecOverlap == InitOverlap /\ [][NextOverlap]_vars

(***************************************************************************)
(* SpecDelete: ingestion and retry calls, one after another, while records *)
(* are deleted through DELETE /knowledge/{record_id}                       *)
(* (api/routes/knowledge.py) at any point between their store calls.       *)
(***************************************************************************)
\* records are deleted only while at most MaxRecords ids have been given out
MaxRecords == 2

\* KnowledgeRepository.delete: the row with this id is removed
delete(table, id) == [ i \in DOMAIN table \ {id} |-> table[i] ]

\* delete_knowledge(record_id): deleted = await repo.delete(record_id); a
\* record that does not exist is answered with 404 and changes nothing
delete_knowledge(record_id) ==
    /\ record_id \in DOMAIN knowledge
    /\ next_id <= MaxRecords + 1
    /\ knowledge' = delete(knowledge, record_id)
    /\ UNCHANGED <<next_id, config_tags, tags_lock, task>>

NextDelete ==
    \/ \E id \in 1..next_id : delete_knowledge(id)
    \/ \E t \in Tasks :
          \/ \E url \in HttpSources : ingest_from_url(t, url)
          \/ \E src \in HttpSources : ingest_from_bytes(t, PNG_BYTES, src, "")
          \/ \E id \in 1..next_id : retry_record(t, id)
          \/ IngestSteps(t)
          \/ process_load_image(t)
          \/ PipelineSteps(t)
          \/ retry_record_get(t)
          \/ retry_record_reset(t)
          \/ Return(t)

SpecDelete == Init /\ [][NextDelete]_vars

(***************************************************************************)
(* SpecTerminate: calls of the entry points, one after another, in a world *)
(* where every update_status call takes effect and every call that is      *)
(* awaited returns or raises.                                              *)
(***************************************************************************)
\* the update_status call of this step found the row, updated it and returned
update_status_succeeds == knowledge' # knowledge

\* the steps of a call in progress
TerminateSteps(t) ==
    \/ IngestSteps(t)
    \/ process_update_status(t) /\ update_status_succeeds
    \/ process_get_record(t)
    \/ process_load_image(t)
    \/ process_validate_image(t)
    \/ process_get_tags(t)
    \/ process_extract_content(t)
    \/ hierarchy_get_tags(t)
    \/ hierarchy_upsert_get(t)
    \/ hierarchy_upsert_write(t)
    \/ process_generate_embedding(t)
    \/ process_update_with_extraction(t)
    \/ process_failed_get(t) /\ task'[t].pc = "p_fail_update"
    \/ process_failed_update(t) /\ update_status_succeeds
    \/ folder_get_by_image(t)
    \/ folder_reset_for_reprocessing(t)
    \/ folder_create(t)
    \/ retry_record_get(t)
    \/ retry_record_reset(t) /\ update_status_succeeds
    \/ retry_all_get_failed(t)
    \/ retry_all_reset(t) /\ update_status_succeeds

NextTerminate ==
    \E t \in Tasks :
        \/ \E url \in HttpSources : ingest_from_url(t, url)
        \/ \E src \in HttpSources : ingest_from_bytes(t, PNG_BYTES, src, "")
        \/ ingest_from_local_folder(t, "/f")
        \/ \E id \in 1..next_id : retry_record(t, id)
        \/ retry_all_failed(t, EMPTY, MaxLimit)
        \/ TerminateSteps(t)
        \/ Return(t)

\* the code between two awaits runs on, and every awaited call returns or
\* raises: a call in progress takes its next step
SpecTerminate ==
    /\ Init
    /\ [][NextTerminate]_vars
    /\ \A t \in Tasks : WF_vars(TerminateSteps(t))

(***************************************************************************)
(* SpecParse: _parse_extraction_response (services/llm_service.py) applied *)
(* to the response texts a model can give.  A response text is given by    *)
(* what json.loads makes of it; a JSON value is absent, null, a string or  *)
(* an object with the keys "value" and "is_new"; a Python value of the     *)
(* result is a str or None.                                                *)
(***************************************************************************)
PyStr(s) == [ type |-> "str", s |-> s ]
PyNone == [ type |-> "NoneType", s |-> <<>> ]

JAbsent == [ type |-> "absent", s |-> <<>>, value_type |-> "absent", value |-> <<>>, is_new |-> "absent" ]
JNull == [ JAbsent EXCEPT !.type = "null" ]
JStr(s) == [ JAbsent EXCEPT !.type = "str", !.s = s ]
JDict(value_type, value, is_new) == [ JAbsent EXCEPT !.type = "dict", !.value_type = value_type, !.value = value, !.is_new = is_new ]

\* what the model can give for "category", and for "subcategory" and "topic"
CategoryValues ==
    { JAbsent, JNull, JStr(<<" ", "a", "i", " ">>), JStr(<<"A", "i">>),
      JDict("str", <<" ", "a", "I">>, "true"), JDict("str", <<"A", "i">>, "absent"),
      JDict("null", <<>>, "true"), JDict("absent", <<>>, "false") }
SubcategoryValues == { JAbsent, JStr(<<"M", "L">>), JDict("str", <<"m", "L", " ">>, "false") }
TopicValues == { JStr(<<" ", "n", "n">>), JDict("str", <<"N", "n">>, "true") }

\* the response texts: not JSON at all, JSON that is not an object, or an
\* object with these members (paraphrased_data is the structured object, a
\* bare string, or missing), bare or inside a markdown code block
NotJson == [ text |-> "Sorry, I cannot read this image.", json |-> "invalid" ]

JsonList == [ text |-> "[1, 2]", json |-> "list" ]

JsonObjects ==
    { [ text |-> "{...}", json |-> "dict", fenced |-> f,
        raw_data |-> "text one", title |-> "Title one", paraphrased_data |-> pd,
        category |-> c, subcategory |-> sc, topic |-> tp ] :
        f \in BOOLEAN, pd \in {"structured", "string"},
        c \in CategoryValues, sc \in SubcategoryValues, tp \in TopicValues }

\* the defaults a caller gives: the ones of the signature, or its own
misc == <<"M", "i", "s", "c">>

ParseDefaults ==
    { [ category |-> misc, subcategory |-> general, topic |-> general ],
      [ category |-> <<"m", "i", "s", "c">>, subcategory |-> <<"G", "e", "n">>,
        topic |-> <<"n", "/", "a", " ">> ] }

\* text.strip(), the removal of the code block lines, and json.loads(text)
json_loads(response) == response.json

\* ExtractionResponse.model_validate(data) passes: raw_data and title are
\* strings, paraphrased_data is a ParaphrasedData, and category, subcategory
\* and topic are objects with a string "value" (is_new defaults to False)
model_validate(data) ==
    /\ data.paraphrased_data = "structured"
    /\ \A field \in {data.category, data.subcategory, data.topic} :
          field.type = "dict" /\ field.value_type = "str"

\* category_data = data.get("category", default_category) and the branch on
\* isinstance(category_data, dict): the value and the is_new flag
manual_field(field, default) ==
    IF field.type = "dict"
    THEN [ value |-> IF field.value_type = "absent" THEN PyStr(default)
                     ELSE IF field.value_type = "null" THEN PyNone
                     ELSE PyStr(field.value),
           is_new |-> field.is_new = "true" ]
    ELSE [ value |-> IF field.type = "absent" THEN PyStr(default)
                     ELSE IF field.type = "null" THEN PyNone
                     ELSE PyStr(field.s),
           is_new |-> FALSE ]

\* if category: category = category.strip().title()
normalize_title(v) ==
    IF v.type = "str" /\ v.s # <<>> THEN PyStr(str_title(str_strip(v.s))) ELSE v

\* if subcategory: subcategory = subcategory.strip().lower()
normalize_lower(v) ==
    IF v.type = "str" /\ v.s # <<>> THEN PyStr(str_lower(str_strip(v.s))) ELSE v

NoResult ==
    [ raw_data |-> "", paraphrased_data |-> "", title |-> "",
      category |-> PyNone, subcategory |-> PyNone, topic |-> PyNone,
      is_new_category |-> FALSE, is_new_subcategory |-> FALSE, is_new_topic |-> FALSE ]

\* the three ways _parse_extraction_response returns, with the path taken
parse_schema(data) ==
    [ path |-> "schema", raised |-> None,
      result |->
        [ raw_data |-> data.raw_data,
          paraphrased_data |-> "{summary, details}",
          title |-> data.title,
          category |-> PyStr(str_title(str_strip(data.category.value))),
          subcategory |-> PyStr(str_lower(str_strip(data.subcategory.value))),
          topic |-> PyStr(str_lower(str_strip(data.topic.value))),
          is_new_category |-> data.category.is_new = "true",
          is_new_subcategory |-> data.subcategory.is_new = "true",
          is_new_topic |-> data.topic.is_new = "true" ] ]

parse_manual(data, defaults) ==
    LET c == manual_field(data.category, defaults.category)
        sc == manual_field(data.subcategory, defaults.subcategory)
        tp == manual_field(data.topic, defaults.topic)
    IN  [ path |-> "manual", raised |-> None,
          result |->
            [ raw_data |-> data.raw_data,
              paraphrased_data |-> IF data.paraphrased_data = "structured"
                                   THEN "{summary, details}" ELSE "summary text",
              title |-> data.title,
              category |-> normalize_title(c.value),
              subcategory |-> normalize_lower(sc.value),
              topic |-> normalize_lower(tp.value),
              is_new_category |-> c.is_new,
              is_new_subcategory |-> sc.is_new,
              is_new_topic |-> tp.is_new ] ]

parse_failed(response, defaults) ==
    [ path |-> "unparseable", raised |-> None,
      result |->
        [ raw_data |-> response.text,
          paraphrased_data |-> "Failed to parse structured response",
          title |-> "Extraction Result",
          category |-> PyStr(defaults.category),
          subcategory |-> PyStr(defaults.subcategory),
          topic |-> PyStr(defaults.topic),
          is_new_category |-> FALSE, is_new_subcategory |-> FALSE,
          is_new_topic |-> FALSE ] ]

\* _parse_extraction_response(response_text, default_category,
\* default_subcategory, default_topic); data.get on a JSON value that is not
\* an object raises AttributeError, which the function does not catch
parse_extraction_response(response, defaults) ==
    IF json_loads(response) = "invalid" THEN parse_failed(response, defaults)
    ELSE IF json_loads(response) = "list"
         THEN [ path |-> "manual", raised |-> "AttributeError", result |-> NoResult ]
    ELSE IF model_validate(response) THEN parse_schema(response)
    ELSE parse_manual(response, defaults)

IdleParse ==
    [ op |-> "idle", pc |-> "idle", response |-> NotJson,
      defaults |-> [ category |-> misc, subcategory |-> general, topic |-> general ],
      path |-> "", raised |-> None, result |-> NoResult ]

InitParse ==
    /\ knowledge = <<>>
    /\ next_id = 1
    /\ config_tags = [ present |-> FALSE, categories |-> <<>> ]
    /\ tags_lock = 0
    /\ task = [ t \in Tasks |-> IdleParse ]

\* a provider method has the response text and calls the parser
call_parse_extraction_response(t, response, defaults) ==
    /\ task[t].pc = "idle"
    /\ SetTask(t, [ IdleParse EXCEPT !.op = "_parse_extraction_response",
                                     !.pc = "parse", !.response = response,
                                     !.defaults = defaults ])
    /\ UNCHANGED <<knowledge, next_id, config_tags, tags_lock>>

\* the parser runs and returns or raises
run_parse_extraction_response(t) ==
    LET me == task[t]
        out == parse_extraction_response(me.response, me.defaults)
    IN
    /\ me.pc = "parse"
    /\ SetTask(t, [ me EXCEPT !.pc = "done", !.path = out.path,
                              !.raised = out.raised, !.result = out.result ])
    /\ UNCHANGED <<knowledge, next_id, config_tags, tags_lock>>

ReturnParse(t) ==
    /\ task[t].pc = "done"
    /\ SetTask(t, IdleParse)
    /\ UNCHANGED <<knowledge, next_id, config_tags, tags_lock>>

NextParse ==
    \E t \in Tasks :
        \/ \E response \in {NotJson, JsonList} \cup JsonObjects, defaults \in ParseDefaults :
              call_parse_extraction_response(t, response, defaults)
        \/ run_parse_extraction_response(t)
        \/ ReturnParse(t)

SpecParse == InitParse /\ [][NextParse]_vars

(***************************************************************************)
\* the ids of the records of a source
RecordsOf(image) == { id \in DOMAIN knowledge : knowledge[id].image = image }

\* the source has a record whose status is COMPLETED
HasCompleted(image) == \E id \in RecordsOf(image) : knowledge[id].status = COMPLETED

\* nothing in the store changes in the step
StoreUnchanged == UNCHANGED <<knowledge, next_id, config_tags>>

\* the pc values inside a pipeline run, after the write of PROCESSING
AfterStatusWrite ==
    { "p_fetch", "p_image", "p_validate", "p_tags", "p_extract", "m_get_tags",
      "m_upsert_get", "m_upsert_write", "p_embed", "p_save", "p_fail_get",
      "p_fail_update" }

\* the step of the pipeline that makes the call `raised_in`
StepOf(raised_in) ==
    CASE raised_in = "update_status" -> STEP_STATUS
      [] raised_in = "get_by_id" -> STEP_FETCH
      [] raised_in \in {"download_image", "get_image_from_path"} -> STEP_IMAGE
      [] raised_in = "validate_image" -> STEP_VALIDATE
      [] raised_in = "get_tags" -> STEP_TAGS
      [] raised_in = "extract_content" -> STEP_EXTRACT
      [] raised_in = "add_category_hierarchy" -> STEP_HIERARCHY
      [] raised_in = "generate_embedding" -> STEP_EMBED
      [] raised_in = "update_with_extraction" -> STEP_SAVE
      [] OTHER -> ""

(***************************************************************************)
(* C1                                                                      *)
(***************************************************************************)
\* t enters ingest_from_url or ingest_from_bytes with a source whose record
\* is COMPLETED
C1_Enters(t) ==
    /\ Idle(t)
    /\ task'[t].op \in {"ingest_from_url", "ingest_from_bytes"}
    /\ HasCompleted(task'[t].source)

\* t, in ingest_from_url or ingest_from_bytes, looks up a source whose record
\* is COMPLETED
C1_LooksUp(t) ==
    /\ task[t].op \in {"ingest_from_url", "ingest_from_bytes"}
    /\ task[t].pc = "ing_lookup"
    /\ task'[t].pc # "ing_lookup"
    /\ HasCompleted(task[t].source)

\* the call returns the id of the COMPLETED record, the store is as it was and
\* no pipeline run, hence no fetch, extraction or embedding call, was made
C1_ShortCircuit(t) ==
    /\ task'[t].pc = "done"
    /\ task'[t].result = "returned"
    /\ task'[t].ret \in RecordsOf(task[t].source)
    /\ knowledge[task'[t].ret].status = COMPLETED
    /\ StoreUnchanged
    /\ task'[t].runs = <<>>
    /\ task'[t].calls = {}

\* the lookup itself fails: the error goes to the caller, nothing has changed
C1_LookupFails(t) ==
    /\ task'[t].pc = "done"
    /\ task'[t].result = "raised"
    /\ task'[t].raised = MSG_STORE
    /\ StoreUnchanged
    /\ task'[t].runs = <<>>
    /\ task'[t].calls = {}

C2_EmbeddingIffCompleted ==
    \A id \in DOMAIN knowledge :
        (knowledge[id].embedding # None) <=> (knowledge[id].status = COMPLETED)

\* one record is COMPLETED with its embedding while a run on another record
\* holds a computed embedding it has not saved yet
C2_Witness ==
    /\ \E id \in DOMAIN knowledge :
          knowledge[id].status = COMPLETED /\ knowledge[id].embedding # None
    /\ \E t \in Tasks :
          /\ task[t].pc = "p_save"
          /\ task[t].embedding # None
          /\ knowledge[task[t].record_id].status = PROCESSING
          /\ knowledge[task[t].record_id].retry_count > 0

(***************************************************************************)
(* C3                                                                      *)
(***************************************************************************)
\* C3: at most one record exists for any image value, and the id that
\* ingest_from_url or ingest_from_bytes returns is the id of the one record
\* of the source it was given.
C3_OneRecordPerImage ==
    /\ \A i, j \in DOMAIN knowledge :
          knowledge[i].image = knowledge[j].image => i = j
    /\ \A t \in Tasks :
          ( /\ task[t].op \in {"ingest_from_url", "ingest_from_bytes"}
            /\ task[t].pc = "done"
            /\ task[t].result = "returned" )
             => RecordsOf(knowledge[task[t].ret].image) = {task[t].ret}

\* a source that had a record was submitted again: its record was reset in
\* place and is being reprocessed
C3_Witness ==
    \E t \in Tasks :
        /\ task[t].op \in {"ingest_from_url", "ingest_from_local_folder"}
        /\ task[t].pc = "p_extract"
        /\ task[t].record_id < next_id - 1
        /\ knowledge[task[t].record_id].comments = MSG_REPROCESSING
        /\ RecordsOf(knowledge[task[t].record_id].image) = {task[t].record_id}

(***************************************************************************)
(* C4                                                                      *)
(***************************************************************************)
\* the status of record id changes in the step, from `from` to `to`, by the
\* call of a task at one of the pcs
C4_Changes(id, from, to, pcs) ==
    /\ knowledge[id].status = from
    /\ knowledge'[id].status = to
    /\ \E t \in Tasks : task[t].record_id = id /\ task[t].pc \in pcs

\* the status changes the specification lists
C4_Listed(id) ==
    \/ C4_Changes(id, PENDING, PROCESSING, {"p_status"})
    \/ C4_Changes(id, PROCESSING, COMPLETED, {"p_save"})
    \/ C4_Changes(id, PROCESSING, FAILED, {"p_fail_update"})
    \/ C4_Changes(id, FAILED, PENDING, {"rr_reset", "ra_reset"})
    \/ C4_Changes(id, PROCESSING, PENDING, {"ing_reset", "lf_reset"})
    \/ C4_Changes(id, FAILED, PENDING, {"ing_reset", "lf_reset"})

\* PENDING to FAILED: the write of PROCESSING raised and the failure was
\* recorded
C4_StatusWriteFailed(id) ==
    /\ C4_Changes(id, PENDING, FAILED, {"p_fail_update"})
    /\ \E t \in Tasks : task[t].record_id = id /\ task[t].raised_in = "update_status"

\* C4 (as amended): every status change of a record is PENDING to PROCESSING,
\* PROCESSING to COMPLETED, PROCESSING to FAILED, FAILED to PENDING by a
\* retry, a reset to PENDING of a non-COMPLETED record on re-submission, or
\* PENDING to FAILED when the write of PROCESSING itself raised; a record
\* never goes from PENDING to COMPLETED, a COMPLETED record never changes
\* status, and a new record starts PENDING.
C4_TransitionsWithFailedStart ==
    [][ /\ \A id \in DOMAIN knowledge :
              /\ id \in DOMAIN knowledge'
              /\ knowledge'[id].status # knowledge[id].status
                    => (C4_Listed(id) \/ C4_StatusWriteFailed(id))
        /\ \A id \in DOMAIN knowledge' \ DOMAIN knowledge :
              knowledge'[id].status = PENDING ]_vars

\* C4 (as stated): every status change of a record is PENDING to PROCESSING,
\* PROCESSING to COMPLETED, PROCESSING to FAILED, FAILED to PENDING by a
\* retry, or a reset to PENDING of a non-COMPLETED record on re-submission;
\* no record goes from PENDING directly to COMPLETED or to FAILED.
C4_TransitionsAsListed ==
    [][ /\ \A id \in DOMAIN knowledge :
              /\ id \in DOMAIN knowledge'
              /\ knowledge'[id].status # knowledge[id].status => C4_Listed(id)
        /\ \A id \in DOMAIN knowledge' \ DOMAIN knowledge :
              knowledge'[id].status = PENDING ]_vars

\* a run whose write of PROCESSING raised has recorded its failure: the
\* record went from PENDING to FAILED
C4_Witness ==
    \E t \in Tasks :
        /\ task[t].last_run.recorded
        /\ task[t].last_run.raised_in = "update_status"
        /\ knowledge[task[t].last_run.id].status = FAILED

(***************************************************************************)
(* C5                                                                      *)
(***************************************************************************)
\* C5: in a pipeline run, whenever the image fetch, the extraction call or
\* the embedding call is about to be made, and at every later point of the
\* run after one of them was made, the stored status of the record is
\* PROCESSING.
C5_ProcessingBeforeExternalCalls ==
    \A t \in Tasks :
        ( /\ task[t].pc \in AfterStatusWrite
          /\ \/ task[t].pc \in {"p_image", "p_extract", "p_embed"}
             \/ task[t].calls # {} )
           => /\ task[t].record_id \in DOMAIN knowledge
              /\ knowledge[task[t].record_id].status = PROCESSING

\* a run that has made its extraction call is stopping on a failure, with the
\* failure not recorded yet
C5_Witness ==
    \E t \in Tasks :
        /\ task[t].pc = "p_fail_update"
        /\ "extract" \in task[t].calls
        /\ knowledge[task[t].record_id].status = PROCESSING

(***************************************************************************)
(* C6                                                                      *)
(***************************************************************************)
\* C6: when a step of a pipeline run raised and the failure-recording update
\* succeeded, the pipeline function has returned False and the record has
\* status FAILED, last_error equal to the exception's message, comments equal
\* to "Failed at step: " followed by the name of the step that raised, and a
\* retry_count one greater than before the run.
C6_FailureRecorded ==
    \A t \in Tasks :
        LET run == task[t].last_run IN
        run.recorded =>
            /\ ~run.success
            /\ run.message # None
            /\ run.id \in DOMAIN knowledge
            /\ knowledge[run.id].status = FAILED
            /\ knowledge[run.id].last_error = run.message
            /\ knowledge[run.id].comments = "Failed at step: " \o StepOf(run.raised_in)
            /\ knowledge[run.id].retry_count = run.retry_count_before + 1

\* the embedding step of a retried record raised and the failure was recorded
C6_Witness ==
    \E t \in Tasks :
        /\ task[t].last_run.recorded
        /\ task[t].last_run.raised_in = "generate_embedding"
        /\ task[t].last_run.retry_count_before > 0

(***************************************************************************)
(* C7                                                                      *)
(***************************************************************************)
\* C7: when _ingest_files_from_folder has gone through a batch of N files of
\* which exactly one failed image validation, and nothing else was caught,
\* it returns N ids and the FAILED record of the failing file is among them.
C7_BatchReturnsAllIds ==
    \A t \in Tasks :
        ( /\ task[t].op = "ingest_files_from_folder"
          /\ task[t].pc = "done"
          /\ Len(task[t].errors) = 1
          /\ task[t].errors[1] \in {MSG_TOO_SMALL, MSG_UNKNOWN_FORMAT} )
           => /\ Len(task[t].job_ids) = Len(task[t].files)
              /\ \E i \in 1..Len(task[t].job_ids) :
                    knowledge[task[t].job_ids[i]].status = FAILED

(***************************************************************************)
(* C8                                                                      *)
(***************************************************************************)
\* C8: a call of ingest_from_local_folder on a folder, or of
\* retry_all_failed, never ends by raising a store error.
C8_StoreErrorsStayInBatch ==
    \A t \in Tasks :
        ( /\ task[t].op \in {"ingest_from_local_folder", "retry_all_failed"}
          /\ task[t].pc = "done"
          /\ task[t].result = "raised" )
           => task[t].raised \notin {MSG_STORE, MSG_INDEX}

(***************************************************************************)
(* C9                                                                      *)
(***************************************************************************)
\* the record retry_record was called with exists and is FAILED
C9_IsFailed(t) ==
    /\ task[t].record_id \in DOMAIN knowledge
    /\ knowledge[task[t].record_id].status = FAILED

\* the call ends by raising, with no record changed and no pipeline run,
\* hence no external call, made
C9_Rejected(t) ==
    /\ task'[t].pc = "done"
    /\ task'[t].result = "raised"
    /\ StoreUnchanged
    /\ task'[t].runs = <<>>
    /\ task'[t].calls = {}

\* C9: retry_record on a missing record or a record that is not FAILED
\* raises, leaves the store unchanged and makes no external call; on a FAILED
\* record it writes status PENDING with last_error cleared, nothing else of
\* the record changing, and then runs the pipeline on that record once -
\* unless the store call itself raises, which ends the call with the error
\* and nothing changed.
C9_RetryOnlyFailed ==
    [][ \A t \in Tasks : task[t].op = "retry_record" =>
          /\ (task[t].pc = "rr_get" /\ task'[t].pc # "rr_get")
                => IF C9_IsFailed(t)
                   THEN StoreUnchanged /\ (task'[t].pc = "rr_reset" \/ C9_Rejected(t))
                   ELSE C9_Rejected(t)
          /\ (task[t].pc = "rr_reset" /\ task'[t].pc # "rr_reset")
                => \/ C9_Rejected(t) /\ task'[t].raised = MSG_STORE
                   \/ /\ C9_IsFailed(t)
                      /\ knowledge' = [ knowledge EXCEPT
                                          ![task[t].record_id].status = PENDING,
                                          ![task[t].record_id].last_error = None ]
                      /\ task'[t].pc = "p_status"
                      /\ task'[t].runs = <<task[t].record_id>>
          /\ (task[t].pc # "done" /\ task'[t].pc = "done"
                /\ task'[t].result = "returned")
                => /\ task'[t].runs = <<task[t].record_id>>
                   /\ task'[t].last_run.id = task[t].record_id ]_vars

\* retry_record on a FAILED record has returned after one pipeline run, which
\* completed the record
C9_Witness ==
    \E t \in Tasks :
        /\ task[t].op = "retry_record"
        /\ task[t].pc = "done"
        /\ task[t].result = "returned"
        /\ task[t].runs = <<task[t].record_id>>
        /\ knowledge[task[t].record_id].status = COMPLETED
        /\ knowledge[task[t].record_id].retry_count > 0

(***************************************************************************)
(* C10                                                                     *)
(***************************************************************************)
\* the number of the ids of a sequence whose record is COMPLETED
RECURSIVE CountCompleted(_)
CountCompleted(ids) ==
    IF ids = <<>> THEN 0
    ELSE (IF knowledge[Head(ids)].status = COMPLETED THEN 1 ELSE 0)
            + CountCompleted(Tail(ids))

\* C10: a call of retry_all_failed that selected records ends by returning,
\* after one pipeline run on each selected record in order, the number of
\* the selected records that are COMPLETED.
C10_RetriesEverySelected ==
    \A t \in Tasks :
        ( /\ task[t].op = "retry_all_failed"
          /\ task[t].pc = "done"
          /\ task[t].job_ids # <<>> )
           => /\ task[t].result = "returned"
              /\ task[t].runs = task[t].job_ids
              /\ task[t].ret = CountCompleted(task[t].job_ids)


(***************************************************************************)
(* C11                                                                     *)
(***************************************************************************)
\* C11: when ingest_from_url or ingest_from_bytes resets the FAILED record of
\* a re-submitted source, the record keeps its id, its last_error is cleared,
\* the pipeline is started on it, and its retry_count is the one it had
\* before the reset.
C11_ResetKeepsRetryCount ==
    [][ \A t \in Tasks :
          ( /\ task[t].op \in {"ingest_from_url", "ingest_from_bytes"}
            /\ task[t].pc = "ing_reset"
            /\ task[t].record_id \in DOMAIN knowledge
            /\ knowledge[task[t].record_id].status = FAILED
            /\ knowledge' # knowledge )
             => /\ task'[t].pc = "p_status"
                /\ task'[t].record_id = task[t].record_id
                /\ knowledge'[task[t].record_id].last_error = None
                /\ knowledge'[task[t].record_id].retry_count
                      = knowledge[task[t].record_id].retry_count ]_vars

(***************************************************************************)
(* C12                                                                     *)
(***************************************************************************)
\* the taxonomy has an entry for the category, the subcategory under it and
\* the topic under that, compared as the code compares names
Holds(categories, category_name, subcategory_name, topic_name) ==
    \E i \in 1..Len(categories) :
        /\ str_lower(categories[i].name) = str_lower(str_strip(category_name))
        /\ \E j \in 1..Len(categories[i].subcategories) :
              LET sub == categories[i].subcategories[j] IN
              /\ str_lower(sub.name) = str_lower(str_strip(subcategory_name))
              /\ \E k \in 1..Len(sub.topics) :
                    str_lower(sub.topics[k]) = str_lower(str_strip(topic_name))

\* no name occurs twice at its level, compared without case
NoDuplicateEntries(categories) ==
    /\ \A i, j \in 1..Len(categories) :
          str_lower(categories[i].name) = str_lower(categories[j].name) => i = j
    /\ \A i \in 1..Len(categories) :
          LET subs == categories[i].subcategories IN
          /\ \A j, k \in 1..Len(subs) :
                str_lower(subs[j].name) = str_lower(subs[k].name) => j = k
          /\ \A j \in 1..Len(subs) :
                \A k, l \in 1..Len(subs[j].topics) :
                    str_lower(subs[j].topics[k]) = str_lower(subs[j].topics[l]) => k = l

\* the merge of t's arguments into the taxonomy that is persisted now
MergeNow(t) ==
    add_category_hierarchy(config_tags.categories, task[t].extraction.category,
                           task[t].extraction.subcategory, task[t].extraction.topic)

\* C12: concurrent add_category_hierarchy calls are serialized: every write
\* of the taxonomy is the merge of one call's arguments into the taxonomy
\* persisted at that moment, and that call returns the flags of that merge;
\* a call that returns leaves its entry in the taxonomy; no entry is ever
\* lost and no name is ever entered twice.
C12_MergesSerialized ==
    [][ /\ config_tags' # config_tags
              => /\ \E t \in DOMAIN task :
                       /\ task[t].pc = "m_upsert_write"
                       /\ task'[t].pc = "done"
                       /\ config_tags'.categories = MergeNow(t).categories
                       /\ task'[t].added = << MergeNow(t).category_added,
                                              MergeNow(t).subcategory_added,
                                              MergeNow(t).topic_added >>
                 /\ \A c \in MergeCategories, sc \in MergeSubcategories, tp \in MergeTopics :
                       Holds(config_tags.categories, c, sc, tp)
                          => Holds(config_tags'.categories, c, sc, tp)
                 /\ NoDuplicateEntries(config_tags'.categories)
        /\ \A t \in DOMAIN task :
              ( /\ task[t].pc # "done"
                /\ task'[t].pc = "done"
                /\ task'[t].result = "returned" )
                 => Holds(config_tags'.categories, task[t].extraction.category,
                          task[t].extraction.subcategory, task[t].extraction.topic) ]_vars

\* two calls for the same new category overlap: one is about to write while
\* the other waits for the lock
C12_Witness ==
    /\ config_tags.categories = <<>>
    /\ task[1].pc = "m_upsert_write"
    /\ task[2].pc = "m_get_tags"
    /\ str_lower(str_strip(task[1].extraction.category))
          = str_lower(str_strip(task[2].extraction.category))
    /\ task[1].extraction.topic # task[2].extraction.topic

(***************************************************************************)
(* C13                                                                     *)
(***************************************************************************)
\* the name in another case and with blanks around it
Recase(s) == <<" ">> \o [ i \in 1..Len(s) |-> IF i % 2 = 1 THEN char_upper(s[i])
                                               ELSE char_lower(s[i]) ] \o <<" ">>

\* the second merge added nothing and changed nothing
NothingAdded(first, second) ==
    /\ ~second.category_added
    /\ ~second.subcategory_added
    /\ ~second.topic_added
    /\ second.categories = first.categories

\* C13: when a call is about to write the merge of its names, merging the
\* same names again into the taxonomy it writes, as given or in another case
\* with surrounding blanks, returns all three flags false and leaves that
\* taxonomy as it is; and a call goes on to write to the store only when its
\* entry is not in the persisted taxonomy.
C13_MergeIdempotent ==
    \A t \in DOMAIN task :
        /\ task[t].pc = "m_upsert_write"
              => LET x == task[t].extraction
                     first == MergeNow(t)
                 IN \A c2 \in {x.category, Recase(x.category)},
                       sc2 \in {x.subcategory, Recase(x.subcategory)},
                       tp2 \in {x.topic, Recase(x.topic)} :
                        NothingAdded(first, add_category_hierarchy(first.categories, c2, sc2, tp2))
        /\ task[t].pc \in {"m_upsert_get", "m_upsert_write"}
              => ~Holds(config_tags.categories, task[t].extraction.category,
                        task[t].extraction.subcategory, task[t].extraction.topic)

\* a call with names that differ in case and blanks from the stored ones has
\* returned three false flags without a write
C13_Witness ==
    \E t \in DOMAIN task :
        /\ task[t].op = "add_category_hierarchy"
        /\ task[t].pc = "done"
        /\ task[t].result = "returned"
        /\ task[t].added = <<FALSE, FALSE, FALSE>>
        /\ task[t].extraction.category = <<" ", "A", "I", " ">>
        /\ task[t].extraction.subcategory = <<"D", "b">>
        /\ task[t].extraction.topic = <<"c", "v">>

(***************************************************************************)
(* C14                                                                     *)
(***************************************************************************)
\* C14: starting from an empty taxonomy, in every topic list of the
\* persisted taxonomy "other", when present, is the last entry.
C14_OtherIsLast ==
    \A i \in 1..Len(config_tags.categories) :
        \A j \in 1..Len(config_tags.categories[i].subcategories) :
            LET topics == config_tags.categories[i].subcategories[j].topics IN
            \A k \in 1..Len(topics) : topics[k] = other => k = Len(topics)

\* a topic list that two topics were inserted into, before "other"
C14_Witness ==
    \E i \in 1..Len(config_tags.categories) :
        \E j \in 1..Len(config_tags.categories[i].subcategories) :
            LET topics == config_tags.categories[i].subcategories[j].topics IN
            /\ Len(topics) = 3
            /\ topics[3] = other
            /\ topics[1] = <<"n", "n">>

(***************************************************************************)
(* C15                                                                     *)
(***************************************************************************)
\* the exception is of a kind the wrapped call of `me` retries
Retryable(me, e) == retry_if_exception_type(me.exceptions, e.kind)

LatestFailure(me) == me.failures[Len(me.failures)]

\* the latest call of the wrapped operation failed
JustFailed(me) ==
    /\ me.pc \in {"wait", "done"}
    /\ me.result # "returned"
    /\ Len(me.failures) > 0

\* rate-limit, timeout and connectivity failures of the providers
TransientCauses == {"RateLimitError", "APITimeoutError", "APIConnectionError",
                    "ConnectError", "TimeoutException", "quota",
                    "DeadlineExceeded", "ServiceUnavailable"}

\* C16: an extract_content call whose provider failed with a rate limit, a
\* timeout or a connectivity failure before the third attempt is attempted
\* again, whatever the provider.
C16_TransientFailuresRetried ==
    \A t \in Tasks :
        ( /\ task[t].op = "extract_content"
          /\ JustFailed(task[t])
          /\ LatestFailure(task[t]).cause \in TransientCauses
          /\ task[t].called < max_attempts )
           => task[t].pc = "wait"

(***************************************************************************)
(* C17                                                                     *)
(***************************************************************************)
\* authentication failures, rejected requests and missing credentials
PermanentCauses == {"AuthenticationError", "BadRequestError", "Unauthenticated",
                    "InvalidArgument", "no_api_key", "no_base_url"}

\* missing credentials and settings
ConfigurationCauses == {"no_api_key", "no_base_url"}

\* C17: an extract_content call whose provider failed with an authentication
\* failure, a rejected request or a missing credential is not attempted
\* again: that exception is raised to the caller, and a missing credential
\* is raised as an LLMConfigurationError.
C17_PermanentFailuresNotRetried ==
    \A t \in Tasks :
        ( /\ task[t].op = "extract_content"
          /\ JustFailed(task[t])
          /\ LatestFailure(task[t]).cause \in PermanentCauses )
           => /\ task[t].pc = "done"
              /\ task[t].raised = LatestFailure(task[t])
              /\ LatestFailure(task[t]).cause \in ConfigurationCauses
                    => task[t].raised.kind = "LLMConfigurationError"

(***************************************************************************)
(* C18                                                                     *)
(***************************************************************************)
\* C18: a generate_embedding call that failed on empty or blank text, on an
\* authentication failure or on a rejected request is not attempted again;
\* on empty or blank text it has made one call and no wait.
C18_ValidationFailuresNotRetried ==
    \A t \in Tasks :
        ( /\ task[t].op = "generate_embedding"
          /\ JustFailed(task[t])
          /\ LatestFailure(task[t]).cause
                \in {"empty_text", "AuthenticationError", "BadRequestError"} )
           => /\ task[t].pc = "done"
              /\ is_blank(task[t].text) => task[t].called = 1 /\ task[t].waits = 0

(***************************************************************************)
(* C19                                                                     *)
(***************************************************************************)
\* C19: in a search_knowledge call the store is searched with the query's
\* vector and a limit of at most 20, first with the filters; the simple
\* search is made only after the filtered search raised, once, with the same
\* vector and limit; when a search returns, its rows are returned as a
\* normal response without an error entry.
C19_FallbackToSimpleSearch ==
    \A t \in Tasks :
        LET me == task[t]
            n == Len(me.searches)
        IN  me.op = "search_knowledge"
              => /\ me.limit <= MaxSearchLimit
                 /\ n <= 2
                 /\ \A i \in 1..n :
                       /\ me.searches[i].match_count = me.limit
                       /\ me.searches[i].match_count <= MaxSearchLimit
                       /\ me.searches[i].query_embedding = embedding_of(me.query)
                       /\ Len(me.searches[i].rows) <= me.limit
                 /\ n >= 1 => me.searches[1].fn = "semantic_search"
                 /\ n = 2 => /\ me.searches[1].outcome = "raised"
                             /\ me.searches[2].fn = "semantic_search_simple"
                 /\ (n = 1 /\ me.searches[1].outcome = "raised") => me.pc = "s_simple"
                 /\ (n >= 1 /\ me.searches[n].outcome = "returned")
                       => /\ me.pc = "done"
                          /\ me.result = "returned"
                          /\ "error" \notin DOMAIN me.response
                          /\ me.response.total_results = Len(me.searches[n].rows)
                          /\ \A i \in 1..Len(me.searches[n].rows) :
                                me.response.results[i].id = ToString(me.searches[n].rows[i])

\* a call with limit 50 whose filtered search raised has returned the two
\* rows of the simple search, which was given the limit 20
C19_Witness ==
    \E t \in Tasks :
        /\ task[t].pc = "done"
        /\ task[t].op = "search_knowledge"
        /\ task[t].result = "returned"
        /\ "limit" \in DOMAIN task[t].arguments
        /\ task[t].arguments.limit = 50
        /\ Len(task[t].searches) = 2
        /\ task[t].searches[2].match_count = MaxSearchLimit
        /\ task[t].searches[2].rows = <<3, 1>>

(***************************************************************************)
(* C20                                                                     *)
(***************************************************************************)
\* the search_knowledge call of t has returned the rows of a search
HasResults(t) ==
    /\ task[t].op = "search_knowledge"
    /\ task[t].pc = "done"
    /\ task[t].result = "returned"
    /\ Len(task[t].searches) > 0

\* the rows of the search whose results t returned
ReturnedRows(t) == task[t].searches[Len(task[t].searches)].rows

\* `shown` is `stored` itself when that has at most 500 characters, and its
\* first 500 characters followed by "..." otherwise
IsPreviewOf(shown, stored) ==
    IF Len(stored) <= PreviewLen
    THEN shown = stored
    ELSE /\ Len(shown) = PreviewLen + 3
         /\ \A i \in 1..PreviewLen : shown[i] = stored[i]
         /\ \A i \in (PreviewLen + 1)..(PreviewLen + 3) : shown[i] = "."

\* C20 (as stated): the results are in the order of the store's rows, the
\* raw_data and paraphrased_data of each result have at most 500 characters,
\* and the stored records are unchanged.
C20_PreviewsWithin500 ==
    \A t \in Tasks :
        HasResults(t)
           => /\ Len(task[t].response.results) = Len(ReturnedRows(t))
              /\ \A i \in 1..Len(ReturnedRows(t)) :
                    /\ task[t].response.results[i].id = ToString(ReturnedRows(t)[i])
                    /\ Len(task[t].response.results[i].raw_data) <= PreviewLen
                    /\ Len(task[t].response.results[i].paraphrased_data) <= PreviewLen
              /\ knowledge = SearchStore

\* C20 (amended): the results are in the order of the store's rows; the
\* raw_data and paraphrased_data of each result are the stored text when it
\* has at most 500 characters and its first 500 characters followed by "..."
\* (503 characters) when it is longer; the stored records are unchanged.
C20_PreviewsOfStoredTexts ==
    \A t \in Tasks :
        HasResults(t)
           => /\ Len(task[t].response.results) = Len(ReturnedRows(t))
              /\ \A i \in 1..Len(ReturnedRows(t)) :
                    LET shown == task[t].response.results[i]
                        stored == SearchStore[ReturnedRows(t)[i]]
                    IN /\ shown.id = ToString(ReturnedRows(t)[i])
                       /\ shown.image = stored.image
                       /\ IsPreviewOf(shown.raw_data, stored.raw_data)
                       /\ IsPreviewOf(shown.paraphrased_data, stored.paraphrased_data)
                       /\ Len(shown.raw_data) <= PreviewLen + 3
                       /\ Len(shown.paraphrased_data) <= PreviewLen + 3
              /\ knowledge = SearchStore

\* three rows were returned, in an order that is not the table's, with a
\* text cut to a preview and a text of exactly 500 characters shown whole
C20_Witness ==
    \E t \in Tasks :
        /\ HasResults(t)
        /\ ReturnedRows(t) = <<3, 1, 2>>
        /\ Len(task[t].response.results[1].raw_data) = PreviewLen + 3
        /\ Len(task[t].response.results[3].raw_data) = PreviewLen

(***************************************************************************)
(* C21                                                                     *)
(***************************************************************************)
\* the positions of a call inside _process_record / _process_record_with_bytes
RunPcs == {"p_status", "p_fetch", "p_image", "p_validate", "p_tags", "p_extract",
           "m_get_tags", "m_upsert_get", "m_upsert_write", "p_embed", "p_save",
           "p_fail_get", "p_fail_update"}

\* request t has a pipeline run in progress
InRun(t) == task[t].op \in {"ingest_from_url", "ingest_from_bytes"} /\ task[t].pc \in RunPcs

\* C21: no two requests have a pipeline run in progress on the same record
\* id at the same time.
C21_OneRunPerRecord ==
    \A t, u \in DOMAIN task :
        (t # u /\ InRun(t) /\ InRun(u)) => task[t].record_id # task[u].record_id

(***************************************************************************)
(* C22                                                                     *)
(***************************************************************************)
\* C22: once both overlapping ingestion calls for a source have returned or
\* raised, at most one record has that source as its image.
C22_OneRecordAfterOverlap ==
    (\A t \in DOMAIN task : task[t].pc = "done")
       => \A src \in HttpSources : Cardinality(RecordsOf(src)) <= 1

(***************************************************************************)
(* C23                                                                     *)
(***************************************************************************)
\* C23: starting from an empty taxonomy, whatever add_category_hierarchy
\* calls were made, one after another or overlapping, the persisted taxonomy
\* has no two categories, no two subcategories of one category and no two
\* topics of one subcategory whose names are equal ignoring case.
C23_NoDuplicateNames ==
    /\ NoDuplicateEntries(config_tags.categories)
    /\ [][ config_tags' # config_tags
             => NoDuplicateEntries(config_tags'.categories) ]_vars

\* a call whose category is written in another case and with blanks has
\* returned, and the taxonomy has the one category with two subcategories
C23_Witness ==
    /\ Len(config_tags.categories) = 1
    /\ config_tags.categories[1].name = <<"A", "i">>
    /\ Len(config_tags.categories[1].subcategories) = 2
    /\ \E t \in DOMAIN task :
          /\ task[t].pc = "done"
          /\ task[t].result = "returned"
          /\ task[t].extraction.category = <<" ", "A", "I", " ">>

(***************************************************************************)
(* C27                                                                     *)
(***************************************************************************)
\* the taxonomy has a category of that name, ignoring case
HasCategory(categories, category_name) ==
    \E i \in 1..Len(categories) :
        str_lower(categories[i].name) = str_lower(str_strip(category_name))

\* the taxonomy has that subcategory under that category, ignoring case
HasSubcategory(categories, category_name, subcategory_name) ==
    \E i \in 1..Len(categories) :
        /\ str_lower(categories[i].name) = str_lower(str_strip(category_name))
        /\ \E j \in 1..Len(categories[i].subcategories) :
              str_lower(categories[i].subcategories[j].name)
                 = str_lower(str_strip(subcategory_name))

\* the topic list of that subcategory under that category
TopicsOf(categories, category_name, subcategory_name) ==
    LET i == CHOOSE i \in 1..Len(categories) :
                 str_lower(categories[i].name) = str_lower(str_strip(category_name))
        j == CHOOSE j \in 1..Len(categories[i].subcategories) :
                 str_lower(categories[i].subcategories[j].name)
                    = str_lower(str_strip(subcategory_name))
    IN  categories[i].subcategories[j].topics

\* C27: when an add_category_hierarchy call returns, its flags tell what the
\* taxonomy lacked before the call: category_added iff it had no category of
\* that name, subcategory_added iff it had no such subcategory under that
\* category, topic_added iff it did not have the topic there and the topic
\* is not "other"; and the topic list of a subcategory the call created is
\* [topic, "other"], or ["other"] when the topic is "other".
C27_FlagsMatchTaxonomyBefore ==
    [][ \A t \in DOMAIN task :
          ( /\ task[t].op = "add_category_hierarchy"
            /\ task[t].pc # "done"
            /\ task'[t].pc = "done"
            /\ task'[t].result = "returned" )
             => LET x == task[t].extraction
                    before == config_tags.categories
                    after == config_tags'.categories
                    topic == str_lower(str_strip(x.topic))
                IN  /\ task'[t].added[1] = ~HasCategory(before, x.category)
                    /\ task'[t].added[2] = ~HasSubcategory(before, x.category, x.subcategory)
                    /\ task'[t].added[3] =
                          ( /\ ~Holds(before, x.category, x.subcategory, x.topic)
                            /\ topic # other )
                    /\ ~HasSubcategory(before, x.category, x.subcategory)
                          => TopicsOf(after, x.category, x.subcategory)
                                = IF topic = other THEN <<other>> ELSE <<topic, other>> ]_vars

\* a call whose topic is "other" has created a subcategory under a category
\* that existed, and has returned (false, true, false)
C27_Witness ==
    \E t \in DOMAIN task :
        /\ task[t].op = "add_category_hierarchy"
        /\ task[t].pc = "done"
        /\ task[t].result = "returned"
        /\ task[t].added = <<FALSE, TRUE, FALSE>>
        /\ task[t].extraction.topic = <<"O", "t", "h", "e", "r", " ">>
        /\ TopicsOf(config_tags.categories, task[t].extraction.category,
                    task[t].extraction.subcategory) = <<other>>

(***************************************************************************)
(* C28                                                                     *)
(***************************************************************************)
\* the sequence without its k-th element
RemoveAt(seq, k) == SubSeq(seq, 1, k - 1) \o SubSeq(seq, k + 1, Len(seq))

\* the topics that are not "other"
NamedTopics(topics) == { k \in 1..Len(topics) : topics[k] # other }

\* the topic list is as before, or has one more topic, not "other", with the
\* earlier topics as they were and in their order
TopicsGrow(before, after) ==
    \/ after = before
    \/ \E k \in 1..Len(after) : after[k] # other /\ RemoveAt(after, k) = before

\* the subcategories are as before and in their places, at most one of them
\* with one more topic, or there is one more subcategory at the end, with at
\* most one topic other than "other"
SubcategoriesGrow(before, after) ==
    /\ Len(after) \in {Len(before), Len(before) + 1}
    /\ \A j \in 1..Len(before) :
          /\ after[j].name = before[j].name
          /\ TopicsGrow(before[j].topics, after[j].topics)
    /\ Cardinality({ j \in 1..Len(before) : after[j] # before[j] })
          + (Len(after) - Len(before)) <= 1
    /\ Len(after) > Len(before)
          => Cardinality(NamedTopics(after[Len(after)].topics)) <= 1

\* the same for the categories: at most one category changed or was added,
\* and a new category has one subcategory
CategoriesGrow(before, after) ==
    /\ Len(after) \in {Len(before), Len(before) + 1}
    /\ \A i \in 1..Len(before) :
          /\ after[i].name = before[i].name
          /\ SubcategoriesGrow(before[i].subcategories, after[i].subcategories)
    /\ Cardinality({ i \in 1..Len(before) : after[i] # before[i] })
          + (Len(after) - Len(before)) <= 1
    /\ Len(after) > Len(before)
          => /\ Len(after[Len(after)].subcategories) = 1
             /\ Cardinality(NamedTopics(after[Len(after)].subcategories[1].topics)) <= 1

\* C28: every change of the persisted taxonomy keeps each existing category,
\* subcategory and topic with its name, its case and its place among the
\* existing entries, and adds at most one category, at most one subcategory
\* and at most one topic other than "other".
C28_TaxonomyOnlyGrows ==
    [][ config_tags' # config_tags
          => CategoriesGrow(config_tags.categories, config_tags'.categories) ]_vars

\* a topic list of three topics: the third merge put its topic between the
\* first topic and "other"
C28_Witness ==
    \E i \in 1..Len(config_tags.categories) :
        \E j \in 1..Len(config_tags.categories[i].subcategories) :
            config_tags.categories[i].subcategories[j].topics
               = << <<"c", "v">>, <<"n", "n">>, other >>

(***************************************************************************)
(* C26                                                                     *)
(***************************************************************************)
\* C26: the taxonomy lock is held only by a call that is inside its critical
\* section, so it is released when the call returns or raises, also when the
\* read or the persist step raises; and under fair scheduling every
\* add_category_hierarchy call that waits for the lock finishes.
C26_LockReleasedAndAcquired ==
    /\ [](tags_lock # 0 => task[tags_lock].pc \in {"m_upsert_get", "m_upsert_write"})
    /\ \A t \in MergeTasks :
          (task[t].pc = "m_get_tags") ~> (task[t].pc = "done" /\ tags_lock # t)

\* one call has raised a store error and the lock is now held by the other
\* call, which is about to persist its merge
C26_Witness ==
    /\ task[1].op = "add_category_hierarchy"
    /\ task[1].pc = "done"
    /\ task[1].result = "raised"
    /\ task[1].raised = MSG_STORE
    /\ tags_lock = 2
    /\ task[2].pc = "m_upsert_write"

(***************************************************************************)
(* C24                                                                     *)
(***************************************************************************)
\* the positions of a pipeline run inside add_category_hierarchy
MergePcs == {"m_get_tags", "m_upsert_get", "m_upsert_write"}

\* the extraction has an is_new flag set
AnyNew(x) == x.is_new_category \/ x.is_new_subcategory \/ x.is_new_topic

\* C24: a pipeline run reaches the embedding call either from an extraction
\* without an is_new flag or from add_category_hierarchy returning; the
\* merge is entered only with an is_new flag set, and the taxonomy is
\* written only by such a merge; when the merge raises, the taxonomy is
\* unchanged, the run goes to the failure handler at the step "updating
\* category hierarchy config" without an embedding call, and the failure
\* update leaves the record FAILED with that step in its comments.
C24_EmbeddingAfterMerge ==
    [][ \A t \in Tasks :
          LET me == task[t]
              after == task'[t]
          IN  /\ (me.pc # "p_embed" /\ after.pc = "p_embed")
                    => \/ me.pc = "p_extract" /\ ~AnyNew(after.extraction)
                       \/ me.pc \in {"m_get_tags", "m_upsert_write"}
                          /\ AnyNew(me.extraction)
                          /\ "embed" \notin after.calls
              /\ (me.pc \notin MergePcs /\ after.pc \in MergePcs)
                    => me.pc = "p_extract" /\ AnyNew(after.extraction)
              /\ config_tags' # config_tags
                    => me.pc = "m_upsert_write" /\ AnyNew(me.extraction)
                       /\ after.pc = "p_embed"
              /\ (me.pc \in MergePcs /\ after.pc \notin MergePcs \cup {"p_embed"})
                    => /\ config_tags' = config_tags
                       /\ after.pc = "p_fail_get"
                       /\ after.raised_in = "add_category_hierarchy"
                       /\ after.current_step = STEP_HIERARCHY
                       /\ "embed" \notin after.calls
              /\ ( /\ me.pc = "p_fail_update"
                   /\ me.raised_in = "add_category_hierarchy"
                   /\ knowledge' # knowledge )
                    => /\ knowledge'[me.record_id].status = FAILED
                       /\ knowledge'[me.record_id].comments
                             = "Failed at step: updating category hierarchy config"
                       /\ knowledge'[me.record_id].embedding = None
                       /\ "embed" \notin me.calls ]_vars

\* the persist step of the merge raised on an empty taxonomy and the record
\* was marked FAILED at that step
C24_Witness ==
    \E t \in Tasks :
        /\ task[t].last_run.recorded
        /\ task[t].last_run.raised_in = "add_category_hierarchy"
        /\ config_tags.categories = <<>>
        /\ knowledge[task[t].last_run.id].status = FAILED
        /\ knowledge[task[t].last_run.id].comments
              = "Failed at step: updating category hierarchy config"

(***************************************************************************)
(* C25                                                                     *)
(***************************************************************************)
\* C25: when the merge of a pipeline run returns, the taxonomy has the entry
\* of the run's extraction; no later step takes an entry out of the
\* taxonomy, whether the run goes on to COMPLETED or a later step fails; and
\* a record that such a run completes has a category, subcategory and topic
\* that the taxonomy has.
C25_MergeOutlivesTheRun ==
    [][ \A t \in Tasks :
          LET me == task[t]
              x == me.extraction
          IN  /\ (me.pc \in MergePcs /\ task'[t].pc = "p_embed")
                    => Holds(config_tags'.categories, x.category, x.subcategory, x.topic)
              /\ config_tags' # config_tags
                    => \A e \in Extractions :
                          Holds(config_tags.categories, e.category, e.subcategory, e.topic)
                             => Holds(config_tags'.categories, e.category,
                                      e.subcategory, e.topic)
              /\ (me.pc \in {"p_embed", "p_save", "p_fail_get", "p_fail_update"}
                  /\ AnyNew(x))
                    => /\ config_tags' = config_tags
                       /\ Holds(config_tags.categories, x.category, x.subcategory, x.topic)
              /\ (me.pc = "p_save" /\ AnyNew(x) /\ knowledge' # knowledge)
                    => /\ knowledge'[me.record_id].status = COMPLETED
                       /\ Holds(config_tags'.categories,
                                knowledge'[me.record_id].category,
                                knowledge'[me.record_id].subcategory,
                                knowledge'[me.record_id].topic) ]_vars

\* the merge of the first run succeeded, the embedding then failed, and the
\* record is FAILED while the taxonomy has the new category
C25_Witness ==
    \E t \in Tasks :
        /\ task[t].last_run.recorded
        /\ task[t].last_run.raised_in = "generate_embedding"
        /\ knowledge[task[t].last_run.id].status = FAILED
        /\ \A id \in DOMAIN knowledge : knowledge[id].status # COMPLETED
        /\ Holds(config_tags.categories, <<"A", "i">>, <<"m", "l">>, <<"n", "n">>)

(***************************************************************************)
(* C29                                                                     *)
(***************************************************************************)
\* the positions of a pipeline run before its last store update
MidRunPcs == {"p_status", "p_fetch", "p_image", "p_validate", "p_tags", "p_extract",
              "m_get_tags", "m_upsert_get", "m_upsert_write", "p_embed"}

\* C29: in a pipeline run a failed embedding attempt is followed by another
\* embedding attempt, with nothing else redone, until attempt max_attempts;
\* only the failure of that attempt ends the run, at the step "generating
\* embedding"; extraction is entered only from the tags step and the
\* PROCESSING write only at the start of a run; and the failure update then
\* leaves the record FAILED with comments "Failed at step: generating
\* embedding" and a retry_count one greater than before the run.
C29_RetryPerCall ==
    [][ \A t \in Tasks :
          LET me == task[t]
              after == task'[t]
          IN  /\ me.pc = "p_embed"
                    => /\ me.attempt \in 1..max_attempts
                       /\ after.pc \in {"p_embed", "p_save", "p_fail_get"}
              /\ (me.pc = "p_embed" /\ after.pc = "p_embed")
                    => /\ after.attempt = me.attempt + 1
                       /\ after.extraction = me.extraction
                       /\ after.record_id = me.record_id
                       /\ knowledge' = knowledge
              /\ (me.pc = "p_embed" /\ after.pc = "p_fail_get")
                    => /\ me.attempt = max_attempts
                       /\ after.raised_in = "generate_embedding"
                       /\ after.current_step = STEP_EMBED
              /\ (me.pc # "p_extract" /\ after.pc = "p_extract") => me.pc = "p_tags"
              /\ me.pc \in MidRunPcs => after.pc # "p_status" \/ me.pc = "p_status"
              /\ ( /\ me.record_id \in DOMAIN knowledge
                   /\ me.pc \in MidRunPcs \ {"p_status"} )
                    => knowledge'[me.record_id].status = knowledge[me.record_id].status
              /\ ( /\ me.pc = "p_fail_update"
                   /\ me.raised_in = "generate_embedding"
                   /\ knowledge' # knowledge )
                    => /\ knowledge'[me.record_id].status = FAILED
                       /\ knowledge'[me.record_id].comments
                             = "Failed at step: generating embedding"
                       /\ knowledge'[me.record_id].retry_count
                             = me.retry_count_before + 1 ]_vars

\* the third embedding attempt of a record's first run has failed
C29_Witness ==
    \E t \in Tasks :
        /\ task[t].pc = "p_fail_get"
        /\ task[t].raised_in = "generate_embedding"
        /\ task[t].calls = {"fetch", "extract", "embed"}
        /\ task[t].retry_count_before = 0
        /\ task[t].error = MSG_EMBEDDING

(***************************************************************************)
(* C30                                                                     *)
(***************************************************************************)
\* C30: in a pipeline run, the first download of a URL image that fails with
\* a transport error is followed by another download attempt.
C30_DownloadRetried ==
    [][ \A t \in Tasks :
          ( /\ task[t].pc = "p_image"
            /\ is_http(task[t].source)
            /\ "fetch" \notin task[t].calls
            /\ task'[t].raised_in = "download_image" )
             => task'[t].pc = "p_image" ]_vars

(***************************************************************************)
(* C31                                                                     *)
(***************************************************************************)
\* the tasks that are at the store call `pc` on record id
AtCall(pcs, id) == \E t \in Tasks : task[t].pc \in pcs /\ task[t].record_id = id

\* C31: the retry_count of a record goes up only by exactly 1, in the store
\* update of the failure handler that also sets the status to FAILED; it goes
\* down only to 0, in a reset_for_reprocessing; the update to PENDING of
\* retry_record and retry_all_failed leaves it as it is; so a FAILED record
\* has failed at least once, and a retry whose failure is recorded leaves the
\* record with one more than it had when the retry was asked for.
C31_RetryCountChanges ==
    /\ [](\A id \in DOMAIN knowledge :
             knowledge[id].status = FAILED => knowledge[id].retry_count >= 1)
    /\ [](\A t \in Tasks :
             ( /\ task[t].op \in {"retry_record", "retry_all_failed"}
               /\ task[t].last_run.recorded )
                => /\ task[t].last_run.retry_count_before >= 1
                   /\ knowledge[task[t].last_run.id].retry_count
                         = task[t].last_run.retry_count_before + 1)
    /\ [][ \A id \in DOMAIN knowledge :
             LET before == knowledge[id]
                 after == knowledge'[id]
             IN  /\ id \in DOMAIN knowledge'
                 /\ after.retry_count > before.retry_count
                       => /\ after.retry_count = before.retry_count + 1
                          /\ after.status = FAILED
                          /\ AtCall({"p_fail_update"}, id)
                 /\ after.retry_count < before.retry_count
                       => /\ after.retry_count = 0
                          /\ AtCall({"ing_reset", "lf_reset"}, id)
                          /\ knowledge' = reset_for_reprocessing(knowledge, id)
                 /\ ( AtCall({"rr_reset", "ra_reset"}, id) /\ knowledge' # knowledge )
                       => /\ before.status = FAILED
                          /\ after.status = PENDING
                          /\ after.retry_count = before.retry_count
                          /\ \A t \in Tasks :
                                task'[t].pc = "p_status"
                                /\ task'[t].retry_count_before = before.retry_count
           ]_vars

\* a record that failed, was retried with retry_record and failed again: its
\* retry_count is 2
C31_Witness ==
    \E t \in Tasks :
        /\ task[t].op = "retry_record"
        /\ task[t].last_run.recorded
        /\ knowledge[task[t].last_run.id].retry_count = 2

(***************************************************************************)
(* C32                                                                     *)
(***************************************************************************)
\* C32: in every state a record with a last_error has status FAILED, and
\* every store update that leaves a record PENDING, PROCESSING or COMPLETED
\* leaves it with last_error null.
C32_LastErrorOnlyWhenFailed ==
    /\ [](\A id \in DOMAIN knowledge :
             knowledge[id].last_error # None => knowledge[id].status = FAILED)
    /\ [][ \A id \in DOMAIN knowledge' :
             ( /\ id \in DOMAIN knowledge => knowledge'[id] # knowledge[id]
               /\ knowledge'[id].status \in {PENDING, PROCESSING, COMPLETED} )
                => knowledge'[id].last_error = None ]_vars

\* a FAILED record, which had its last_error, has been reset by retry_record
\* and is PENDING
C32_Witness ==
    \E t \in Tasks :
        /\ task[t].op = "retry_record"
        /\ task[t].pc = "p_status"
        /\ task[t].record_id \in DOMAIN knowledge
        /\ knowledge[task[t].record_id].status = PENDING
        /\ knowledge[task[t].record_id].comments # None
        /\ knowledge[task[t].record_id].last_error = None

(***************************************************************************)
(* C33                                                                     *)
(***************************************************************************)
\* the store calls of the entry points: the lookup by image, the reset, the
\* create
LookupPcs == {"ing_lookup", "lf_lookup"}
ResetPcs == {"ing_reset", "lf_reset"}
CreatePcs == {"ing_create", "lf_create"}

\* C33: a reset_for_reprocessing that takes effect leaves the row PENDING,
\* with category, subcategory, title, raw_data and paraphrased_data empty,
\* topic "general", embedding and last_error null, retry_count 0 and the
\* reprocessing note as comments, with its id, image and url as they were and
\* every other row untouched; an entry point whose lookup by image finds a
\* record that is not COMPLETED goes on to reset that record (unless the
\* lookup itself raises), and an entry point creates a record only for a
\* source that has none.
C33_ResetForReprocessing ==
    /\ [](\A t \in Tasks :
             /\ task[t].pc \in CreatePcs => RecordsOf(task[t].source) = {}
             /\ task[t].pc \in ResetPcs
                   => /\ task[t].record_id \in RecordsOf(task[t].source)
                      /\ knowledge[task[t].record_id].status # COMPLETED)
    /\ [][ \A t \in Tasks :
             /\ ( task[t].pc \in ResetPcs /\ knowledge' # knowledge )
                   => LET id == task[t].record_id
                          before == knowledge[id]
                          after == knowledge'[id]
                      IN  /\ DOMAIN knowledge' = DOMAIN knowledge
                          /\ \A other_id \in DOMAIN knowledge \ {id} :
                                knowledge'[other_id] = knowledge[other_id]
                          /\ after.status = PENDING
                          /\ after.category = EMPTY
                          /\ after.subcategory = EMPTY
                          /\ after.title = ""
                          /\ after.raw_data = ""
                          /\ after.paraphrased_data = ""
                          /\ after.topic = general
                          /\ after.embedding = None
                          /\ after.last_error = None
                          /\ after.retry_count = 0
                          /\ after.comments = MSG_REPROCESSING
                          /\ after.image = before.image
                          /\ after.url = before.url
             /\ ( /\ task[t].pc \in LookupPcs
                  /\ \E id \in RecordsOf(task[t].source) :
                        knowledge[id].status # COMPLETED )
                   => \/ task'[t] = task[t]
                      \/ task'[t].pc \in ResetPcs
                      \/ task'[t].pc = "done" /\ task'[t].raised = MSG_STORE
           ]_vars

\* the existing record of a re-submitted source, which was not COMPLETED, has
\* been reset and its pipeline run is starting
C33_Witness ==
    \E t \in Tasks :
        /\ task[t].op \in {"ingest_from_url", "ingest_from_bytes"}
        /\ task[t].pc = "p_status"
        /\ task[t].record_id \in DOMAIN knowledge
        /\ knowledge[task[t].record_id].comments = MSG_REPROCESSING
        /\ knowledge[task[t].record_id].status = PENDING
        /\ task[t].runs = <<task[t].record_id>>
        /\ next_id > 1

(***************************************************************************)
(* C34                                                                     *)
(***************************************************************************)
\* the two store calls of the failure handler: the read and the update of
\* update_status(record_id, FAILED, ..., increment_retry=True)
FailurePcs == {"p_fail_get", "p_fail_update"}

\* the failure handler of t ends in this step without having stored FAILED
FailureNotRecorded(t) ==
    /\ task[t].pc \in FailurePcs
    /\ task'[t].pc \notin FailurePcs
    /\ knowledge' = knowledge

\* C34: when the failure-recording update of a pipeline run raises, the
\* pipeline function returns False and raises nothing: the entry point
\* returns normally or, in a batch loop with records left, goes on with the
\* next record; the store is as it was, so the record has the status that
\* was stored last.
C34_FailureUpdateSwallowed ==
    [][ \A t \in Tasks :
          FailureNotRecorded(t) =>
             LET me == task[t]
                 run == task'[t].last_run
             IN  /\ run.id = me.record_id
                 /\ ~run.success
                 /\ ~run.recorded
                 /\ run.message = me.error
                 /\ task'[t].result # "raised"
                 /\ task'[t].raised = None
                 /\ me.record_id \in DOMAIN knowledge
                       => knowledge'[me.record_id].status = knowledge[me.record_id].status
                 /\ IF me.op \in {"ingest_from_local_folder", "retry_all_failed"}
                       /\ me.idx < Len(me.job_ids)
                    THEN /\ task'[t].idx = me.idx + 1
                         /\ task'[t].record_id = me.job_ids[me.idx + 1]
                         /\ task'[t].pc \in {"p_status", "ra_reset"}
                    ELSE /\ task'[t].pc = "done"
                         /\ task'[t].result = "returned" ]_vars

\* retry_all_failed is on the second of its records after the run on the
\* first one failed and the failure could not be recorded
C34_Witness ==
    \E t \in Tasks :
        /\ task[t].op = "retry_all_failed"
        /\ task[t].idx = 2
        /\ task[t].last_run.id = task[t].job_ids[1]
        /\ ~task[t].last_run.success
        /\ ~task[t].last_run.recorded
        /\ task[t].last_run.message # None
        /\ knowledge[task[t].job_ids[1]].status \in {PENDING, PROCESSING}

(***************************************************************************)
(* C35                                                                     *)
(***************************************************************************)
\* the record of the pipeline run of t has been deleted
RecordDeleted(t) == task[t].pc \in RunPcs /\ task[t].record_id \notin DOMAIN knowledge

\* C35: a step of a pipeline run never adds a row, and an id that has been
\* deleted never has a row again; a run whose record is deleted when it is
\* about to write PROCESSING or to reload the record goes to its failure
\* handler without a fetch, extraction or embedding call; and a run that ends
\* while its record is deleted has returned False, raised nothing, and has
\* left no row with that id.
C35_DeletedStaysDeleted ==
    /\ [](\A t \in Tasks : task[t].pc \in {"p_status", "p_fetch"} => task[t].calls = {})
    /\ [][ /\ \A id \in 1..(next_id - 1) :
                id \notin DOMAIN knowledge => id \notin DOMAIN knowledge'
           /\ \A t \in Tasks :
                /\ ( task[t].pc \in RunPcs /\ task'[t] # task[t] )
                      => DOMAIN knowledge' \subseteq DOMAIN knowledge
                /\ ( RecordDeleted(t) /\ task'[t] # task[t] )
                      => /\ knowledge' = knowledge
                         /\ task[t].pc \in {"p_status", "p_fetch"}
                               => /\ task'[t].pc = "p_fail_get"
                                  /\ task'[t].calls = {}
                         /\ task[t].pc \in FailurePcs
                               => task'[t].calls = task[t].calls
                         /\ task'[t].pc \notin RunPcs
                               => /\ task'[t].pc = "done"
                                  /\ task'[t].result = "returned"
                                  /\ task'[t].last_run.id = task[t].record_id
                                  /\ ~task'[t].last_run.success
                                  /\ ~task'[t].last_run.recorded
                                  /\ task[t].record_id \notin DOMAIN knowledge'
         ]_vars

\* a run whose record was deleted before the reload has ended: it returned
\* False after "Record not found", having made no external call
C35_Witness ==
    \E t \in Tasks :
        /\ task[t].pc = "done"
        /\ task[t].last_run.id = task[t].record_id
        /\ task[t].last_run.message = MSG_NOT_FOUND
        /\ ~task[t].last_run.success
        /\ task[t].calls = {}
        /\ task[t].record_id \notin DOMAIN knowledge

\* a run whose record was deleted while the extraction was under way has
\* ended at the save step
C35_WitnessLate ==
    \E t \in Tasks :
        /\ task[t].pc = "done"
        /\ task[t].last_run.raised_in = "update_with_extraction"
        /\ task[t].last_run.message = MSG_INDEX
        /\ task[t].record_id \notin DOMAIN knowledge

(***************************************************************************)
(* C36                                                                     *)
(***************************************************************************)
\* the image files of a folder listing, in order
ImageFiles(files) == SelectSeq(files, has_image_suffix)

\* C36: when ingest_from_local_folder returns, the ids it returns are, in
\* order, the ids of the records of the folder's image files, one per file,
\* as the single-source entry point returns them: the id of the record of a
\* source that was already COMPLETED included.
C36_BatchReturnsIdOfEverySource ==
    \A t \in Tasks :
        ( /\ task[t].op = "ingest_from_local_folder"
          /\ task[t].pc = "done"
          /\ task[t].result = "returned" )
           => /\ Len(task[t].job_ids) = Len(ImageFiles(task[t].files))
              /\ \A k \in 1..Len(task[t].job_ids) :
                    /\ task[t].job_ids[k] \in DOMAIN knowledge
                    /\ knowledge[task[t].job_ids[k]].image = ImageFiles(task[t].files)[k]

(***************************************************************************)
(* C37                                                                     *)
(***************************************************************************)
\* C37: when the update_status calls take effect and every awaited call
\* returns or raises, every call of an entry point ends (it returns or
\* raises), and when it has ended every record it ran the pipeline on is
\* COMPLETED or FAILED.
C37_CallsEndWithRecordsTerminal ==
    /\ \A t \in Tasks : (task[t].pc # "idle") ~> (task[t].pc = "done")
    /\ [](\A t \in Tasks :
             task[t].pc = "done"
                => \A k \in 1..Len(task[t].runs) :
                      /\ task[t].runs[k] \in DOMAIN knowledge
                      /\ knowledge[task[t].runs[k]].status \in {COMPLETED, FAILED})

\* retry_all_failed has returned after the pipeline runs of two records, one
\* of which is COMPLETED and one FAILED
C37_Witness ==
    \E t \in Tasks :
        /\ task[t].op = "retry_all_failed"
        /\ task[t].pc = "done"
        /\ Len(task[t].runs) = 2
        /\ { knowledge[task[t].runs[k]].status : k \in 1..2 } = {COMPLETED, FAILED}

(***************************************************************************)
(* C38                                                                     *)
(***************************************************************************)
\* C38: a call of ingest_from_bytes with bytes that validate_image rejects
\* ends at once by raising the validation error: the store is not touched (no
\* row is added, every row is as it was), no pipeline run is started and no
\* external call is made.
C38_InvalidBytesRejectedAtEntry ==
    [][ \A t \in Tasks :
          ( /\ task[t].pc = "idle"
            /\ task'[t].op = "ingest_from_bytes"
            /\ validate_image(task'[t].image_bytes) # None )
             => /\ task'[t].pc = "done"
                /\ task'[t].result = "raised"
                /\ task'[t].raised = validate_image(task'[t].image_bytes)
                /\ task'[t].runs = <<>>
                /\ task'[t].calls = {}
                /\ task'[t].last_run = NoRun
                /\ knowledge' = knowledge
                /\ next_id' = next_id ]_vars

\* ingest_from_bytes has rejected bytes of unknown format for a source whose
\* record, FAILED from an earlier call, is still FAILED
C38_Witness ==
    \E t \in Tasks :
        /\ task[t].op = "ingest_from_bytes"
        /\ task[t].pc = "done"
        /\ task[t].raised = MSG_UNKNOWN_FORMAT
        /\ \E id \in RecordsOf(task[t].source) : knowledge[id].status = FAILED

(***************************************************************************)
(* C39                                                                     *)
(***************************************************************************)
\* the comments the failure handler can write
FailureComments ==
    { failed_at_step(step) :
         step \in { "initializing", STEP_STATUS, STEP_FETCH, STEP_IMAGE, STEP_VALIDATE,
                    STEP_TAGS, STEP_EXTRACT, STEP_HIERARCHY, STEP_EMBED, STEP_SAVE } }

\* C39: the comments of a record name a failed step only while the record is
\* FAILED; in particular a record that a retry or a re-submission has
\* brought to COMPLETED does not have the comment of its earlier failure.
C39_NoFailureCommentOnCompleted ==
    \A id \in DOMAIN knowledge :
        knowledge[id].status = COMPLETED => knowledge[id].comments \notin FailureComments

(***************************************************************************)
(* C40                                                                     *)
(***************************************************************************)
\* the value is a string that strip() and title() (or lower()) leave as it is
IsTrimmedTitle(v) == v.type = "str" /\ str_strip(v.s) = v.s /\ str_title(v.s) = v.s
IsTrimmedLower(v) == v.type = "str" /\ str_strip(v.s) = v.s /\ str_lower(v.s) = v.s

\* C40: whenever _parse_extraction_response has returned a result, on any of
\* its three paths, the category is trimmed and in Title Case and the
\* subcategory and the topic are trimmed and lowercase; on the unparseable
\* path the three is_new flags are false and raw_data is the response text;
\* on the manual path a category, subcategory or topic given as a bare
\* string has its is_new flag false.
C40_ParsedResultNormalized ==
    \A t \in Tasks :
        LET me == task[t]
            r == me.result
        IN  ( me.op = "_parse_extraction_response" /\ me.pc = "done" /\ me.raised = None )
               => /\ IsTrimmedTitle(r.category)
                  /\ IsTrimmedLower(r.subcategory)
                  /\ IsTrimmedLower(r.topic)
                  /\ me.path = "unparseable"
                        => /\ ~r.is_new_category
                           /\ ~r.is_new_subcategory
                           /\ ~r.is_new_topic
                           /\ r.raw_data = me.response.text
                  /\ me.path = "manual"
                        => /\ me.response.category.type = "str" => ~r.is_new_category
                           /\ me.response.subcategory.type = "str" => ~r.is_new_subcategory
                           /\ me.response.topic.type = "str" => ~r.is_new_topic

\* the same for the calls the program makes, which leave the defaults of the
\* signature ("Misc", "general", "general") in place
C40_ParsedResultNormalizedWithOwnDefaults ==
    \A t \in Tasks :
        ( /\ task[t].op = "_parse_extraction_response"
          /\ task[t].pc = "done"
          /\ task[t].raised = None
          /\ task[t].defaults = [ category |-> misc, subcategory |-> general,
                                  topic |-> general ] )
           => /\ IsTrimmedTitle(task[t].result.category)
              /\ IsTrimmedLower(task[t].result.subcategory)
              /\ IsTrimmedLower(task[t].result.topic)

====
